---- MODULE Spec2Model ----
(***************************************************************************)
(* A model of CXXRingBuffer::RingBuffer, the lock-free single-producer /   *)
(* single-consumer byte ring buffer.                                       *)
(*                                                                         *)
(* The data operations are those of include/CXXRingBuffer/RingBuffer.hpp   *)
(* (free-running cursors); the lifecycle operations and the accessors      *)
(* Capacity() and FreeSpace() are those of RingBuffer.cpp.                 *)
(*                                                                         *)
(* Two specifications share the variables:                                 *)
(*   Spec      every public operation as one atomic call on one thread;    *)
(*   SpecSPSC  one producer and one consumer thread whose loads, byte      *)
(*             copies and stores interleave.                               *)
(*                                                                         *)
(* SizeType is modelled as an unsigned integer of IndexBits bits.  The     *)
(* bytes the producer offers are the successive indices of one stream, so  *)
(* every byte of a run is distinct and any loss, duplication or            *)
(* reordering shows.  Storage returned by malloc holds Garbage, a value    *)
(* different from every byte of the stream.                                *)
(***************************************************************************)
EXTENDS Integers, Sequences, FiniteSets, TLC

\* ---------------------------------------------------------------- bounds

\* The width of SizeType in bits (64 in the program).
IndexBits == 3

\* The number of bytes after which the producer stops offering data.
MaxBytes == 10

\* The number of RingBuffer objects a program of SpecOwn has.
MaxObjects == 2

\* ------------------------------------------------------------ SizeType

\* The modulus of SizeType arithmetic.
Mod == 2^IndexBits

SizeType == 0..(Mod - 1)

\* An addition that stops at the largest value instead of wrapping.
Add_saturating(a, b) == IF a + b < Mod THEN a + b ELSE Mod - 1

Add(a, b) == (a + b) % Mod

Sub(a, b) == (((a - b) % Mod) + Mod) % Mod

Mul(a, b) == (a * b) % Mod

Min(a, b) == IF a < b THEN a ELSE b

RECURSIVE BitAnd(_, _)
BitAnd(a, b) ==
    IF a = 0 \/ b = 0 THEN 0
    ELSE (a % 2) * (b % 2) + 2 * BitAnd(a \div 2, b \div 2)

RECURSIVE bit_ceil_from(_, _)
bit_ceil_from(p, n) == IF p >= n THEN p ELSE bit_ceil_from(2 * p, n)

\* The smallest power of two greater than n (off by one at the powers of two).
bit_ceil_greater(n) == bit_ceil_from(1, n + 1)

\* std::bit_ceil: the smallest power of two that is not less than n.
bit_ceil(n) == bit_ceil_from(1, n)

minCapacity == 2

maxCapacity == 2^(IndexBits - 1)

\* A null pointer, and the value of a byte nobody has stored yet.
nullptr == <<>>

Garbage == MaxBytes + Mod

\* ----------------------------------------------------------------- state

VARIABLES
    buffer_,         \* the storage: a sequence of capacity_ bytes, or nullptr
    capacity_,       \* the capacity of buffer_ in bytes
    capacityMask_,   \* capacity_ - 1
    writePosition_,  \* the free-running write location
    readPosition_,   \* the free-running read location
    prod,            \* the producer thread: position in its call and locals
    cons,            \* the consumer thread: position in its call and locals
    accepted,        \* ghost: the bytes accepted from the producer
    delivered,       \* ghost (SpecSPSC): the bytes reads copied out to the consumer
    consumed,        \* ghost (Spec): how many bytes the consumer took off the queue
    last,            \* ghost: the last completed call, its result and pre-state
    objects,         \* (SpecOwn) the RingBuffer objects of a program: alive or not, fields
    heap             \* (SpecOwn) the allocator's regions: unused, allocated, released

rbVars == <<buffer_, capacity_, capacityMask_, writePosition_, readPosition_>>

thrVars == <<prod, cons>>

ghostVars == <<accepted, delivered, consumed, last>>

ownVars == <<objects, heap>>

vars == <<buffer_, capacity_, capacityMask_, writePosition_, readPosition_,
          prod, cons, accepted, delivered, consumed, last, objects, heap>>

\* The objects of a program and the regions of its allocator; a region
\* more than there are objects, so that one can be lost.
Objects == 1..MaxObjects

Regions == 1..(MaxObjects + 1)

\* No object has been constructed, no region handed out.
NoObjects ==
    [o \in Objects |->
        [live |-> FALSE,
         fields |-> [buffer_ |-> <<>>, capacity_ |-> 0, capacityMask_ |-> 0,
                     writePosition_ |-> 0, readPosition_ |-> 0]]]

NoRegions == [p \in Regions |-> "unused"]

\* The fields of the object, as a record (the pre-state kept in last).
Fields ==
    [buffer_ |-> buffer_, capacity_ |-> capacity_, capacityMask_ |-> capacityMask_,
     writePosition_ |-> writePosition_, readPosition_ |-> readPosition_]

\* A thread that is not inside a call.
Idle ==
    [pc |-> "idle", itemSize |-> 0, itemCount |-> 0, allowPartial |-> FALSE,
     writePos |-> 0, readPos |-> 0, items |-> 0, bytes |-> 0, k |-> 0, data |-> <<>>,
     seen |-> <<>>, vec |-> <<>>, sizes |-> <<>>]

\* The arguments of a call; an argument the call does not have keeps the
\* value it has here.
NoArgs ==
    [ptrNull |-> FALSE, itemSize |-> 0, itemCount |-> 0, allowPartial |-> FALSE,
     count |-> 0, sizes |-> <<>>, size |-> 0, mallocOk |-> TRUE,
     throws |-> FALSE]

ItemArgsOf(ptrNull, itemSize, itemCount, allowPartial) ==
    [NoArgs EXCEPT !.ptrNull = ptrNull, !.itemSize = itemSize,
                   !.itemCount = itemCount, !.allowPartial = allowPartial]

\* The fields of an object without storage.
NoFields ==
    [buffer_ |-> nullptr, capacity_ |-> 0, capacityMask_ |-> 0,
     writePosition_ |-> 0, readPosition_ |-> 0]

\* No call came before.
NoPrior ==
    [op |-> "none", ptrNull |-> FALSE, itemSize |-> 0, itemCount |-> 0,
     allowPartial |-> FALSE, count |-> 0, sizes |-> <<>>, size |-> 0,
     mallocOk |-> TRUE, throws |-> FALSE, ret |-> 0, ok |-> FALSE,
     thrown |-> FALSE, out |-> <<>>,
     pre |-> [buffer_ |-> nullptr, capacity_ |-> 0, capacityMask_ |-> 0,
              writePosition_ |-> 0, readPosition_ |-> 0],
     front |-> <<>>, peer |-> NoFields]

\* The call recorded in last, as the call before the one being made.
Prior ==
    [op |-> last.op, ptrNull |-> last.ptrNull, itemSize |-> last.itemSize,
     itemCount |-> last.itemCount, allowPartial |-> last.allowPartial,
     count |-> last.count, sizes |-> last.sizes, size |-> last.size,
     mallocOk |-> last.mallocOk, throws |-> last.throws, ret |-> last.ret,
     ok |-> last.ok, thrown |-> last.thrown, out |-> last.out,
     pre |-> last.pre, front |-> last.front, peer |-> last.peer]

\* A completed call: its name, its arguments, what it returned (ret: a
\* count, ok: a truth value, out: the bytes it copied out), the fields of
\* the object and the queued bytes before it, and the call made just before
\* it when the caller went from that one straight to this one.
Call(op, args, ret, ok, out) ==
    [op |-> op, ptrNull |-> args.ptrNull, itemSize |-> args.itemSize,
     itemCount |-> args.itemCount, allowPartial |-> args.allowPartial,
     count |-> args.count, sizes |-> args.sizes, size |-> args.size,
     mallocOk |-> args.mallocOk, throws |-> args.throws, ret |-> ret, ok |-> ok,
     thrown |-> FALSE, out |-> out,
     pre |-> Fields, front |-> SubSeq(accepted, consumed + 1, Len(accepted)),
     peer |-> NoFields, before |-> Prior]

\* A call that did not return: an exception left it.
Threw(op, args) ==
    [Call(op, args, 0, FALSE, <<>>) EXCEPT !.thrown = TRUE]

\* A call that involved a second object, whose fields after it are peer.
WithPeer(op, peer) ==
    [Call(op, NoArgs, 0, TRUE, <<>>) EXCEPT !.peer = peer]

\* No call is recorded.
NoCall ==
    [op |-> "none", ptrNull |-> FALSE, itemSize |-> 0, itemCount |-> 0,
     allowPartial |-> FALSE, count |-> 0, sizes |-> <<>>, size |-> 0,
     mallocOk |-> TRUE, throws |-> FALSE, ret |-> 0, ok |-> FALSE,
     thrown |-> FALSE, out |-> <<>>,
     pre |-> [buffer_ |-> nullptr, capacity_ |-> 0, capacityMask_ |-> 0,
              writePosition_ |-> 0, readPosition_ |-> 0],
     front |-> <<>>, peer |-> NoFields, before |-> NoPrior]

\* The caller is between two calls.
Between == last = NoCall

\* The caller can make a call: it is between two calls, or it has the
\* result of one call and goes straight to the next.
Ready == last.before = NoPrior

\* The next n bytes the producer offers.
Source(n) == [i \in 1..n |-> Len(accepted) + i - 1]

\* ------------------------------------------------------------- accessors

\* explicit operator bool
operatorBool == buffer_ # nullptr

capacity == capacity_

freeSpace == Sub(capacity_, Sub(writePosition_, readPosition_))

isFull == Sub(writePosition_, readPosition_) = capacity_

availableBytes == Sub(writePosition_, readPosition_)

isEmpty == writePosition_ = readPosition_

\* Capacity() of RingBuffer.cpp.
Capacity == IF capacity_ = 0 THEN 0 ELSE Sub(capacity_, 1)

\* FreeSpace() of RingBuffer.cpp.
FreeSpace ==
    IF capacity_ = 0 THEN 0
    ELSE IF writePosition_ > readPosition_
         THEN Sub(BitAnd(Add(Sub(readPosition_, writePosition_), capacity_), capacityMask_), 1)
         ELSE IF writePosition_ < readPosition_
              THEN Sub(Sub(readPosition_, writePosition_), 1)
              ELSE Sub(capacity_, 1)

\* ------------------------------------------------- the bulk copy engine

\* The byte at physical offset off of a region (outside the region: an
\* indeterminate value).
Load(buf, off) == IF off < Len(buf) THEN buf[off + 1] ELSE Garbage

\* write that keeps one byte unused to tell full from empty.
writeItems_reservesSlot(writePos, readPos, itemSize, itemCount, allowPartial) ==
    LET bytesUsed == Sub(writePos, readPos)
        bytesFree == Sub(Sub(capacity_, bytesUsed), 1)
        itemsFree == bytesFree \div itemSize
    IN  IF itemsFree = 0 \/ (itemsFree < itemCount /\ ~allowPartial)
        THEN 0
        ELSE Min(itemsFree, itemCount)

\* write that ignores allowPartial.
writeItems_alwaysPartial(writePos, readPos, itemSize, itemCount, allowPartial) ==
    LET bytesUsed == Sub(writePos, readPos)
        bytesFree == Sub(capacity_, bytesUsed)
        itemsFree == bytesFree \div itemSize
    IN  IF itemsFree = 0 THEN 0 ELSE Min(itemsFree, itemCount)

\* write that compares byte counts, the requested one being itemCount * itemSize
\* in SizeType.
writeItems_byBytes(writePos, readPos, itemSize, itemCount, allowPartial) ==
    LET bytesUsed == Sub(writePos, readPos)
        bytesFree == Sub(capacity_, bytesUsed)
        bytesWanted == Mul(itemCount, itemSize)
    IN  IF bytesFree < itemSize \/ (bytesFree < bytesWanted /\ ~allowPartial)
        THEN 0
        ELSE Min(bytesFree, bytesWanted) \div itemSize

\* write: the number of items to write, from the two cursors it loaded
\* (0: the call returns 0 without copying).
writeItems(writePos, readPos, itemSize, itemCount, allowPartial) ==
    LET bytesUsed == Sub(writePos, readPos)
        bytesFree == Sub(capacity_, bytesUsed)
        itemsFree == bytesFree \div itemSize
    IN  IF itemsFree = 0 \/ (itemsFree < itemCount /\ ~allowPartial)
        THEN 0
        ELSE Min(itemsFree, itemCount)

\* read that wants more bytes in the buffer than it takes.
readItems_leavesOne(writePos, readPos, itemSize, itemCount, allowPartial) ==
    LET bytesUsed == Sub(writePos, readPos)
        itemsAvailable == (bytesUsed - 1) \div itemSize
    IN  IF bytesUsed = 0 \/ itemsAvailable = 0
           \/ (itemsAvailable < itemCount /\ ~allowPartial)
        THEN 0
        ELSE Min(itemsAvailable, itemCount)

\* read: the number of items to read, from the two cursors it loaded.
readItems(writePos, readPos, itemSize, itemCount, allowPartial) ==
    LET bytesUsed == Sub(writePos, readPos)
        itemsAvailable == bytesUsed \div itemSize
    IN  IF itemsAvailable = 0 \/ (itemsAvailable < itemCount /\ ~allowPartial)
        THEN 0
        ELSE Min(itemsAvailable, itemCount)

\* peek that accepts a partial result as read does.
peekItems_partial(writePos, readPos, itemSize, itemCount) ==
    LET bytesUsed == Sub(writePos, readPos)
        itemsAvailable == bytesUsed \div itemSize
    IN  Min(itemsAvailable, itemCount)

\* peek: whether all itemCount items are available.
peekItems(writePos, readPos, itemSize, itemCount) ==
    LET bytesUsed == Sub(writePos, readPos)
        itemsAvailable == bytesUsed \div itemSize
    IN  IF itemsAvailable < itemCount THEN 0 ELSE itemCount

\* A copy that runs on past the end of the storage instead of wrapping.
CopyOffset_noWrap(pos, k, total) == BitAnd(pos, capacityMask_) + k

\* The physical offset that byte k (from 0) of a transfer of total bytes
\* starting at cursor pos goes to or comes from: one memcpy when the
\* transfer ends before the end of storage, two when it wraps.
CopyOffset(pos, k, total) ==
    LET index == BitAnd(pos, capacityMask_)
        bytesToEnd == Sub(capacity_, index)
    IN  IF total <= bytesToEnd
        THEN index + k
        ELSE IF k < bytesToEnd THEN index + k ELSE k - bytesToEnd

\* The storage after the memcpys of write copied the first total bytes of src.
MemcpyIn(buf, pos, src, total) ==
    [j \in 1..Len(buf) |->
        IF \E k \in 0..(total - 1) : CopyOffset(pos, k, total) = j - 1
        THEN Load(src, CHOOSE k \in 0..(total - 1) : CopyOffset(pos, k, total) = j - 1)
        ELSE buf[j]]

\* The destination after the memcpys of read or peek copied total bytes
\* into a destination of size bytes.
MemcpyOut(buf, pos, total, size) ==
    [i \in 1..size |->
        IF i <= total THEN Load(buf, CopyOffset(pos, i - 1, total)) ELSE Garbage]

\* ------------------------------------------- Spec: whole calls, one thread

writeCall(op, ptrNull, itemSize, itemCount, allowPartial) ==
    /\ Ready
    /\ Len(accepted) < MaxBytes
    /\ LET items == IF ptrNull \/ itemSize = 0 \/ itemCount = 0 \/ capacity_ = 0
                    THEN 0
                    ELSE writeItems(writePosition_, readPosition_,
                                    itemSize, itemCount, allowPartial)
           bytesToWrite == Mul(items, itemSize)
           src == Source(itemSize * itemCount)
       IN  /\ buffer_' = IF items = 0 THEN buffer_
                         ELSE MemcpyIn(buffer_, writePosition_, src, bytesToWrite)
           /\ writePosition_' = IF items = 0 THEN writePosition_
                                ELSE Add(writePosition_, bytesToWrite)
           /\ accepted' = accepted \o SubSeq(src, 1, items * itemSize)
           /\ last' = Call(op, ItemArgsOf(ptrNull, itemSize, itemCount, allowPartial),
                           items, items # 0, <<>>)
    /\ UNCHANGED <<capacity_, capacityMask_, readPosition_, prod, cons,
                   delivered, consumed>>

\* read that does not check its pointer argument.
readCall_uncheckedPointer(op, ptrNull, itemSize, itemCount, allowPartial) ==
    /\ Ready
    /\ LET items == IF itemSize = 0 \/ itemCount = 0 \/ capacity_ = 0
                    THEN 0
                    ELSE readItems(writePosition_, readPosition_,
                                   itemSize, itemCount, allowPartial)
           bytesToRead == Mul(items, itemSize)
           dst == MemcpyOut(buffer_, readPosition_, bytesToRead, items * itemSize)
       IN  /\ readPosition_' = IF items = 0 THEN readPosition_
                               ELSE Add(readPosition_, bytesToRead)
           /\ consumed' = consumed + items * itemSize
           /\ last' = Call(op, ItemArgsOf(ptrNull, itemSize, itemCount, allowPartial),
                           items, items # 0, dst)
    /\ UNCHANGED <<buffer_, capacity_, capacityMask_, writePosition_, prod, cons,
                   accepted, delivered>>

readCall(op, ptrNull, itemSize, itemCount, allowPartial) ==
    /\ Ready
    /\ LET items == IF ptrNull \/ itemSize = 0 \/ itemCount = 0 \/ capacity_ = 0
                    THEN 0
                    ELSE readItems(writePosition_, readPosition_,
                                   itemSize, itemCount, allowPartial)
           bytesToRead == Mul(items, itemSize)
           dst == MemcpyOut(buffer_, readPosition_, bytesToRead, items * itemSize)
       IN  /\ readPosition_' = IF items = 0 THEN readPosition_
                               ELSE Add(readPosition_, bytesToRead)
           /\ consumed' = consumed + items * itemSize
           /\ last' = Call(op, ItemArgsOf(ptrNull, itemSize, itemCount, allowPartial),
                           items, items # 0, dst)
    /\ UNCHANGED <<buffer_, capacity_, capacityMask_, writePosition_, prod, cons,
                   accepted, delivered>>

\* peek whose copy runs on past the end of the storage instead of wrapping.
peekCall_noWrap(op, ptrNull, itemSize, itemCount) ==
    /\ Ready
    /\ LET items == IF ptrNull \/ itemSize = 0 \/ itemCount = 0 \/ capacity_ = 0
                    THEN 0
                    ELSE peekItems(writePosition_, readPosition_, itemSize, itemCount)
           bytesToPeek == Mul(items, itemSize)
           dst == [i \in 1..bytesToPeek |->
                      Load(buffer_, BitAnd(readPosition_, capacityMask_) + i - 1)]
       IN  last' = Call(op, ItemArgsOf(ptrNull, itemSize, itemCount, FALSE),
                        items, items # 0, dst)
    /\ UNCHANGED <<rbVars, prod, cons, accepted, delivered, consumed>>

peekCall(op, ptrNull, itemSize, itemCount) ==
    /\ Ready
    /\ LET items == IF ptrNull \/ itemSize = 0 \/ itemCount = 0 \/ capacity_ = 0
                    THEN 0
                    ELSE peekItems(writePosition_, readPosition_, itemSize, itemCount)
           bytesToPeek == Mul(items, itemSize)
           dst == MemcpyOut(buffer_, readPosition_, bytesToPeek, items * itemSize)
       IN  last' = Call(op, ItemArgsOf(ptrNull, itemSize, itemCount, FALSE),
                        items, items # 0, dst)
    /\ UNCHANGED <<rbVars, prod, cons, accepted, delivered, consumed>>

write(ptrNull, itemSize, itemCount, allowPartial) ==
    writeCall("write", ptrNull, itemSize, itemCount, allowPartial)

read(ptrNull, itemSize, itemCount, allowPartial) ==
    readCall("read", ptrNull, itemSize, itemCount, allowPartial)

peek(ptrNull, itemSize, itemCount) ==
    peekCall("peek", ptrNull, itemSize, itemCount)

\* writeValue, readValue and peekValue of a value of size bytes.
writeValue(size) == writeCall("writeValue", FALSE, size, 1, FALSE)

readValue(size) == readCall("readValue", FALSE, size, 1, FALSE)

peekValue(size) == peekCall("peekValue", FALSE, size, 1)

\* readValue<T>() that reads into raw storage and constructs the result
\* afterwards.
readValue_optional_readsFirst(size, throws) ==
    IF throws
    THEN /\ Ready
         /\ LET items == IF capacity_ = 0 THEN 0
                         ELSE readItems(writePosition_, readPosition_, size, 1, FALSE)
            IN  /\ readPosition_' = Add(readPosition_, Mul(items, size))
                /\ consumed' = consumed + items * size
         /\ last' = Threw("readValue<T>()",
                          [ItemArgsOf(FALSE, size, 1, FALSE) EXCEPT !.throws = TRUE])
         /\ UNCHANGED <<buffer_, capacity_, capacityMask_, writePosition_, prod, cons,
                        accepted, delivered>>
    ELSE readCall("readValue<T>()", FALSE, size, 1, FALSE)

\* std::optional<T> readValue<T>(), T of size bytes: result.emplace()
\* default-constructs a T, which throws or not, and readValue(T&) fills it.
readValue_optional(size, throws) ==
    IF throws
    THEN /\ Ready
         /\ last' = Threw("readValue<T>()",
                          [ItemArgsOf(FALSE, size, 1, FALSE) EXCEPT !.throws = TRUE])
         /\ UNCHANGED <<rbVars, prod, cons, accepted, delivered, consumed>>
    ELSE readCall("readValue<T>()", FALSE, size, 1, FALSE)

\* std::optional<T> peekValue<T>() const.
peekValue_optional(size, throws) ==
    IF throws
    THEN /\ Ready
         /\ last' = Threw("peekValue<T>()",
                          [ItemArgsOf(FALSE, size, 1, FALSE) EXCEPT !.throws = TRUE])
         /\ UNCHANGED <<rbVars, prod, cons, accepted, delivered, consumed>>
    ELSE peekCall("peekValue<T>()", FALSE, size, 1)

\* ------------------------------------------------------ discarding data

\* skip that does not look at what is available.
skipItems_unchecked(writePos, readPos, itemSize, itemCount) == itemCount

\* skip that counts an incomplete item at the end as an item.
skipItems_roundsUp(writePos, readPos, itemSize, itemCount) ==
    LET bytesUsed == Sub(writePos, readPos)
        itemsAvailable == (bytesUsed + itemSize - 1) \div itemSize
    IN  IF itemsAvailable = 0 THEN 0 ELSE Min(itemsAvailable, itemCount)

\* skip: the number of items to skip, from the two cursors it loaded.
skipItems(writePos, readPos, itemSize, itemCount) ==
    LET bytesUsed == Sub(writePos, readPos)
        itemsAvailable == bytesUsed \div itemSize
    IN  IF itemsAvailable = 0 THEN 0 ELSE Min(itemsAvailable, itemCount)

skip(itemSize, itemCount) ==
    /\ Ready
    /\ LET items == IF itemSize = 0 \/ itemCount = 0 \/ capacity_ = 0
                    THEN 0
                    ELSE skipItems(writePosition_, readPosition_, itemSize, itemCount)
           bytesToSkip == Mul(items, itemSize)
       IN  /\ readPosition_' = IF items = 0 THEN readPosition_
                               ELSE Add(readPosition_, bytesToSkip)
           /\ consumed' = consumed + items * itemSize
           /\ last' = Call("skip", ItemArgsOf(FALSE, itemSize, itemCount, TRUE),
                           items, items # 0, <<>>)
    /\ UNCHANGED <<buffer_, capacity_, capacityMask_, writePosition_, prod, cons,
                   accepted, delivered>>

\* skip with an allowPartial argument that has no effect.
skipItemsAllowPartial_ignored(writePos, readPos, itemSize, itemCount, allowPartial) ==
    LET bytesUsed == Sub(writePos, readPos)
        itemsAvailable == bytesUsed \div itemSize
    IN  IF itemsAvailable = 0 THEN 0 ELSE Min(itemsAvailable, itemCount)

\* skip(itemSize, itemCount, allowPartial): the number of items to skip,
\* from the two cursors it loaded.
skipItemsAllowPartial(writePos, readPos, itemSize, itemCount, allowPartial) ==
    LET bytesUsed == Sub(writePos, readPos)
        itemsAvailable == bytesUsed \div itemSize
    IN  IF itemsAvailable = 0 \/ (itemsAvailable < itemCount /\ ~allowPartial)
        THEN 0
        ELSE Min(itemsAvailable, itemCount)

\* skip(itemSize, itemCount, allowPartial), recorded under the name op; the
\* caller takes the result as a count, or (whole) compares it with itemCount.
skipCall(op, itemSize, itemCount, allowPartial, whole) ==
    /\ Ready
    /\ LET items == IF itemSize = 0 \/ itemCount = 0 \/ capacity_ = 0
                    THEN 0
                    ELSE skipItemsAllowPartial(writePosition_, readPosition_,
                                               itemSize, itemCount, allowPartial)
           bytesToSkip == Mul(items, itemSize)
       IN  /\ readPosition_' = IF items = 0 THEN readPosition_
                               ELSE Add(readPosition_, bytesToSkip)
           /\ consumed' = consumed + items * itemSize
           /\ last' = Call(op, ItemArgsOf(FALSE, itemSize, itemCount, allowPartial),
                           items, IF whole THEN items = itemCount ELSE items # 0, <<>>)
    /\ UNCHANGED <<buffer_, capacity_, capacityMask_, writePosition_, prod, cons,
                   accepted, delivered>>

\* skip(itemSize, itemCount, allowPartial) of the later revision of the header.
skip_allowPartial(itemSize, itemCount, allowPartial) ==
    skipCall("skip/3", itemSize, itemCount, allowPartial, FALSE)

\* skip<T>(itemCount), T of size bytes:
\* skip(sizeof(T), itemCount, false) == itemCount.
skip_T(size, itemCount) ==
    skipCall("skip<T>", size, itemCount, FALSE, TRUE)

\* drain that takes the byte count within the storage, as an index.
drainBytes_masked(writePos, readPos) ==
    BitAnd(Sub(writePos, readPos), capacityMask_)

\* drain: the number of bytes to discard, from the two cursors it loaded.
drainBytes(writePos, readPos) == Sub(writePos, readPos)

\* drain that empties the buffer by setting both cursors to 0.
drain_resetsCursors ==
    /\ Ready
    /\ LET bytesUsed == IF capacity_ = 0 THEN 0
                        ELSE drainBytes(writePosition_, readPosition_)
       IN  /\ readPosition_' = 0
           /\ writePosition_' = 0
           /\ consumed' = consumed + bytesUsed
           /\ last' = Call("drain", NoArgs, bytesUsed, bytesUsed # 0, <<>>)
    /\ UNCHANGED <<buffer_, capacity_, capacityMask_, prod, cons,
                   accepted, delivered>>

drain ==
    /\ Ready
    /\ LET bytesUsed == IF capacity_ = 0 THEN 0
                        ELSE drainBytes(writePosition_, readPosition_)
       IN  /\ readPosition_' = IF bytesUsed = 0 THEN readPosition_ ELSE writePosition_
           /\ consumed' = consumed + bytesUsed
           /\ last' = Call("drain", NoArgs, bytesUsed, bytesUsed # 0, <<>>)
    /\ UNCHANGED <<buffer_, capacity_, capacityMask_, writePosition_, prod, cons,
                   accepted, delivered>>

\* ------------------------------------------------- the vector interface

\* A std::span over the storage: its first physical offset and its size;
\* a default-constructed span has a null data pointer.
Span(offset, size) == [null |-> FALSE, offset |-> offset, size |-> size]

EmptySpan == [null |-> TRUE, offset |-> 0, size |-> 0]

\* writeVector that stops at the end of the storage.
writeVectorAt_frontOnly(writePos, readPos) ==
    LET bytesUsed == Sub(writePos, readPos)
        bytesFree == Sub(capacity_, bytesUsed)
        writeIndex == BitAnd(writePos, capacityMask_)
        bytesToEnd == Sub(capacity_, writeIndex)
    IN  IF bytesFree = 0 THEN <<EmptySpan, EmptySpan>>
        ELSE <<Span(writeIndex, Min(bytesFree, bytesToEnd)), EmptySpan>>

\* writeVector that offers the whole storage, whatever is queued.
writeVectorAt_wholeStorage(writePos, readPos) ==
    LET writeIndex == BitAnd(writePos, capacityMask_)
        bytesToEnd == Sub(capacity_, writeIndex)
    IN  IF capacity_ > bytesToEnd
        THEN <<Span(writeIndex, bytesToEnd), Span(0, Sub(capacity_, bytesToEnd))>>
        ELSE <<Span(writeIndex, capacity_), EmptySpan>>

\* writeVector, from the two cursors it loaded.
writeVectorAt(writePos, readPos) ==
    LET bytesUsed == Sub(writePos, readPos)
        bytesFree == Sub(capacity_, bytesUsed)
        writeIndex == BitAnd(writePos, capacityMask_)
        bytesToEnd == Sub(capacity_, writeIndex)
    IN  IF bytesFree = 0 THEN <<EmptySpan, EmptySpan>>
        ELSE IF bytesFree > bytesToEnd
             THEN <<Span(writeIndex, bytesToEnd), Span(0, Sub(bytesFree, bytesToEnd))>>
             ELSE <<Span(writeIndex, bytesFree), EmptySpan>>

writeVector == writeVectorAt(writePosition_, readPosition_)

\* readVector, from the two cursors it loaded.
readVectorAt(writePos, readPos) ==
    LET bytesUsed == Sub(writePos, readPos)
        readIndex == BitAnd(readPos, capacityMask_)
        bytesToEnd == Sub(capacity_, readIndex)
    IN  IF bytesUsed = 0 THEN <<EmptySpan, EmptySpan>>
        ELSE IF bytesUsed > bytesToEnd
             THEN <<Span(readIndex, bytesToEnd), Span(0, Sub(bytesUsed, bytesToEnd))>>
             ELSE <<Span(readIndex, bytesUsed), EmptySpan>>

readVector == readVectorAt(writePosition_, readPosition_)

\* A call of writeVector() or of readVector(): it returns the vector, whose
\* total size is recorded, and stores nothing.
writeVector_call ==
    /\ Ready
    /\ last' = Call("writeVector", NoArgs, writeVector[1].size + writeVector[2].size,
                    ~writeVector[1].null, <<>>)
    /\ UNCHANGED <<rbVars, prod, cons, accepted, delivered, consumed>>

readVector_call ==
    /\ Ready
    /\ last' = Call("readVector", NoArgs, readVector[1].size + readVector[2].size,
                    ~readVector[1].null, <<>>)
    /\ UNCHANGED <<rbVars, prod, cons, accepted, delivered, consumed>>

\* The physical offset of element i (from 0) of a span; through a null data
\* pointer no byte of the storage is reached.
SpanOffset(span, i) == IF span.null THEN Mod ELSE span.offset + i

\* The physical offset of byte k (from 0) of a vector taken front first,
\* then back: what a caller of writeVector or readVector addresses.
VectorOffset(vec, k) ==
    IF k < vec[1].size THEN SpanOffset(vec[1], k)
    ELSE SpanOffset(vec[2], k - vec[1].size)

\* commitWrite that keeps the write position within the storage.
commitWritePosition_masked(writePos, count) ==
    BitAnd(Add(writePos, count), capacityMask_)

\* commitWrite: the new write position.
commitWritePosition(writePos, count) == Add(writePos, count)

\* commitRead that moves the read position back by count.
commitReadPosition_backward(readPos, count) == Sub(readPos, count)

\* commitRead: the new read position.
commitReadPosition(readPos, count) == Add(readPos, count)

\* The producer copies count bytes into writeVector() and calls
\* commitWrite(count); count is within the vector, as commitWrite requires.
commitWrite(count) ==
    /\ Ready
    /\ Len(accepted) < MaxBytes
    /\ capacity_ # 0
    /\ LET vec == writeVector
           src == Source(count)
       IN  /\ count <= vec[1].size + vec[2].size
           /\ buffer_' = [j \in 1..Len(buffer_) |->
                             IF \E k \in 0..(count - 1) : VectorOffset(vec, k) = j - 1
                             THEN Load(src, CHOOSE k \in 0..(count - 1) :
                                                VectorOffset(vec, k) = j - 1)
                             ELSE buffer_[j]]
           /\ writePosition_' = commitWritePosition(writePosition_, count)
           /\ accepted' = accepted \o src
           /\ last' = Call("commitWrite", [NoArgs EXCEPT !.count = count],
                           count, TRUE, <<>>)
    /\ UNCHANGED <<capacity_, capacityMask_, readPosition_, prod, cons,
                   delivered, consumed>>

\* The consumer looks at the first count bytes of readVector() and calls
\* commitRead(count); count is within the vector, as commitRead requires.
commitRead(count) ==
    /\ Ready
    /\ capacity_ # 0
    /\ LET vec == readVector
           seen == [i \in 1..count |-> Load(buffer_, VectorOffset(vec, i - 1))]
       IN  /\ count <= vec[1].size + vec[2].size
           /\ readPosition_' = commitReadPosition(readPosition_, count)
           /\ consumed' = consumed + count
           /\ last' = Call("commitRead", [NoArgs EXCEPT !.count = count],
                           count, TRUE, seen)
    /\ UNCHANGED <<buffer_, capacity_, capacityMask_, writePosition_, prod, cons,
                   accepted, delivered>>

\* ---------------------------------------------------- multiple values

RECURSIVE SumTo(_, _)
SumTo(sizes, j) == IF j = 0 THEN 0 ELSE sizes[j] + SumTo(sizes, j - 1)

\* (sizeof args + ...)
TotalSize(sizes) == SumTo(sizes, Len(sizes))

\* The argument that byte k (from 0) of the concatenated arguments belongs to.
ArgOf(sizes, k) ==
    CHOOSE j \in 1..Len(sizes) : SumTo(sizes, j - 1) <= k /\ k < SumTo(sizes, j)

\* writeArg and readArg: the physical offset of byte i (from 0) of an
\* argument of len bytes that starts at cursor in the vector.
ArgOffset(vec, cursor, len, i) ==
    LET frontSize == vec[1].size
    IN  IF cursor + len <= frontSize
        THEN SpanOffset(vec[1], cursor + i)
        ELSE IF cursor >= frontSize
             THEN SpanOffset(vec[2], (cursor - frontSize) + i)
             ELSE LET toFront == frontSize - cursor
                  IN  IF i < toFront
                      THEN SpanOffset(vec[1], cursor + i)
                      ELSE SpanOffset(vec[2], i - toFront)

\* The physical offset of byte k (from 0) of the concatenated arguments.
ValuesOffset(vec, sizes, k) ==
    LET j == ArgOf(sizes, k)
        cursor == SumTo(sizes, j - 1)
    IN  ArgOffset(vec, cursor, sizes[j], k - cursor)

\* A check that lets the arguments through as soon as the vector has room
\* for any byte.
valuesFit_any(vec, sizes) == Add(vec[1].size, vec[2].size) > 0

\* Whether the arguments fit in the vector.
valuesFit(vec, sizes) == ~(Add(vec[1].size, vec[2].size) < TotalSize(sizes))

writeValues(sizes) ==
    /\ Ready
    /\ Len(accepted) < MaxBytes
    /\ LET totalSize == TotalSize(sizes)
           vec == writeVector
           fit == valuesFit(vec, sizes)
           src == Source(totalSize)
       IN  /\ buffer_' =
                 IF ~fit THEN buffer_
                 ELSE [j \in 1..Len(buffer_) |->
                          IF \E k \in 0..(totalSize - 1) : ValuesOffset(vec, sizes, k) = j - 1
                          THEN Load(src, CHOOSE k \in 0..(totalSize - 1) :
                                             ValuesOffset(vec, sizes, k) = j - 1)
                          ELSE buffer_[j]]
           /\ writePosition_' = IF ~fit THEN writePosition_
                                ELSE commitWritePosition(writePosition_, totalSize)
           /\ accepted' = IF fit THEN accepted \o src ELSE accepted
           /\ last' = Call("writeValues", [NoArgs EXCEPT !.sizes = sizes],
                           0, fit, <<>>)
    /\ UNCHANGED <<capacity_, capacityMask_, readPosition_, prod, cons,
                   delivered, consumed>>

\* peekValues that reads on past the end of the front span.
peekedValues_linear(vec, sizes) ==
    [i \in 1..TotalSize(sizes) |-> Load(buffer_, SpanOffset(vec[1], i - 1))]

\* The bytes peekValues copies into its arguments, concatenated.
peekedValues(vec, sizes) ==
    [i \in 1..TotalSize(sizes) |-> Load(buffer_, ValuesOffset(vec, sizes, i - 1))]

peekValues(sizes) ==
    /\ Ready
    /\ LET vec == readVector
           fit == valuesFit(vec, sizes)
       IN  last' = Call("peekValues", [NoArgs EXCEPT !.sizes = sizes], 0, fit,
                        IF fit THEN peekedValues(vec, sizes) ELSE <<>>)
    /\ UNCHANGED <<rbVars, prod, cons, accepted, delivered, consumed>>

readValues(sizes) ==
    /\ Ready
    /\ LET totalSize == TotalSize(sizes)
           vec == readVector
           fit == valuesFit(vec, sizes)
           out == IF fit THEN peekedValues(vec, sizes) ELSE <<>>
       IN  /\ readPosition_' = IF ~fit THEN readPosition_
                               ELSE commitReadPosition(readPosition_, totalSize)
           /\ consumed' = IF fit THEN consumed + totalSize ELSE consumed
           /\ last' = Call("readValues", [NoArgs EXCEPT !.sizes = sizes],
                           0, fit, out)
    /\ UNCHANGED <<buffer_, capacity_, capacityMask_, writePosition_, prod, cons,
                   accepted, delivered>>

\* ------------------------------------------------------------- lifecycle

\* Deallocate that releases the storage and leaves the cursors alone.
Deallocated_keepsCursors(f) ==
    IF f.buffer_ # nullptr
    THEN [buffer_ |-> nullptr, capacity_ |-> 0, capacityMask_ |-> 0,
          writePosition_ |-> f.writePosition_, readPosition_ |-> f.readPosition_]
    ELSE f

\* The fields after Deallocate().
Deallocated(f) ==
    IF f.buffer_ # nullptr
    THEN [buffer_ |-> nullptr, capacity_ |-> 0, capacityMask_ |-> 0,
          writePosition_ |-> 0, readPosition_ |-> 0]
    ELSE f

\* Allocate that releases the storage before it checks the range.
Allocated_releasesFirst(f, size, mallocOk) ==
    LET d == Deallocated(f)
        sz == bit_ceil(size)
    IN  IF size < minCapacity \/ size > maxCapacity
        THEN [fields |-> d, ret |-> FALSE]
        ELSE IF ~mallocOk
             THEN [fields |-> d, ret |-> FALSE]
             ELSE [fields |-> [buffer_ |-> [i \in 1..sz |-> Garbage],
                               capacity_ |-> sz, capacityMask_ |-> Sub(sz, 1),
                               writePosition_ |-> 0, readPosition_ |-> 0],
                   ret |-> TRUE]

\* Allocate that releases the old storage only once it has the new one.
Allocated_keepsOnFailure(f, size, mallocOk) ==
    IF size < minCapacity \/ size > maxCapacity
    THEN [fields |-> f, ret |-> FALSE]
    ELSE LET sz == bit_ceil(size)
         IN  IF ~mallocOk
             THEN [fields |-> f, ret |-> FALSE]
             ELSE [fields |-> [buffer_ |-> [i \in 1..sz |-> Garbage],
                               capacity_ |-> sz, capacityMask_ |-> Sub(sz, 1),
                               writePosition_ |-> 0, readPosition_ |-> 0],
                   ret |-> TRUE]

\* The fields after Allocate(size), and its result; mallocOk tells whether
\* the allocator grants the request.
Allocated(f, size, mallocOk) ==
    IF size < minCapacity \/ size > maxCapacity
    THEN [fields |-> f, ret |-> FALSE]
    ELSE LET d == Deallocated(f)
             sz == bit_ceil(size)
         IN  IF ~mallocOk
             THEN [fields |-> d, ret |-> FALSE]
             ELSE [fields |-> [buffer_ |-> [i \in 1..sz |-> Garbage],
                               capacity_ |-> sz, capacityMask_ |-> Sub(sz, 1),
                               writePosition_ |-> 0, readPosition_ |-> 0],
                   ret |-> TRUE]

\* The object takes the fields f; the bytes of a released region are gone.
SetFields(f) ==
    /\ buffer_' = f.buffer_
    /\ capacity_' = f.capacity_
    /\ capacityMask_' = f.capacityMask_
    /\ writePosition_' = f.writePosition_
    /\ readPosition_' = f.readPosition_
    /\ IF f = Fields
       THEN UNCHANGED <<accepted, consumed>>
       ELSE accepted' = <<>> /\ consumed' = 0

Allocate(size, mallocOk) ==
    /\ Ready
    /\ LET r == Allocated(Fields, size, mallocOk)
       IN  /\ SetFields(r.fields)
           /\ last' = Call("Allocate", [NoArgs EXCEPT !.size = size, !.mallocOk = mallocOk],
                           0, r.ret, <<>>)
    /\ UNCHANGED <<prod, cons, delivered>>

Deallocate ==
    /\ Ready
    /\ SetFields(Deallocated(Fields))
    /\ last' = Call("Deallocate", NoArgs, 0, TRUE, <<>>)
    /\ UNCHANGED <<prod, cons, delivered>>

\* A move constructor that starts the new object with both cursors at 0.
MoveConstructed_resetsCursors(other) ==
    [self |-> [buffer_ |-> other.buffer_, capacity_ |-> other.capacity_,
               capacityMask_ |-> other.capacityMask_,
               writePosition_ |-> 0, readPosition_ |-> 0],
     other |-> NoFields]

\* RingBuffer(RingBuffer&& other): the fields of the new object, each
\* exchanged out of other, and the fields other is left with.
MoveConstructed(other) ==
    [self |-> [buffer_ |-> other.buffer_, capacity_ |-> other.capacity_,
               capacityMask_ |-> other.capacityMask_,
               writePosition_ |-> other.writePosition_,
               readPosition_ |-> other.readPosition_],
     other |-> [buffer_ |-> nullptr, capacity_ |-> 0, capacityMask_ |-> 0,
                writePosition_ |-> 0, readPosition_ |-> 0]]

\* operator=(RingBuffer&& other) on an object with the fields self; same
\* tells whether other is the object itself.  The storage self had is freed.
MoveAssigned(self, other, same) ==
    IF same
    THEN [self |-> self, other |-> self]
    ELSE [self |-> [buffer_ |-> other.buffer_, capacity_ |-> other.capacity_,
                    capacityMask_ |-> other.capacityMask_,
                    writePosition_ |-> other.writePosition_,
                    readPosition_ |-> other.readPosition_],
          other |-> [buffer_ |-> nullptr, capacity_ |-> 0, capacityMask_ |-> 0,
                     writePosition_ |-> 0, readPosition_ |-> 0]]

\* RingBuffer b(std::move(rb)); the caller goes on with rb, the source.
moveConstructFrom ==
    /\ Ready
    /\ LET r == MoveConstructed(Fields)
       IN  /\ SetFields(r.other)
           /\ last' = WithPeer("moveConstruct.source", r.self)
    /\ UNCHANGED <<prod, cons, delivered>>

\* RingBuffer b(std::move(rb)); the caller goes on with b, the new object.
moveConstructInto ==
    /\ Ready
    /\ LET r == MoveConstructed(Fields)
       IN  /\ SetFields(r.self)
           /\ last' = WithPeer("moveConstruct.destination", r.other)
    /\ UNCHANGED <<prod, cons, delivered>>

\* b = std::move(rb), b having the fields destination; the caller goes on
\* with rb, the source.
moveAssignFrom(destination) ==
    /\ Ready
    /\ LET r == MoveAssigned(destination, Fields, FALSE)
       IN  /\ SetFields(r.other)
           /\ last' = WithPeer("moveAssign.source", r.self)
    /\ UNCHANGED <<prod, cons, delivered>>

\* rb = std::move(rb).
moveAssignSelf ==
    /\ Ready
    /\ LET r == MoveAssigned(Fields, Fields, TRUE)
       IN  /\ SetFields(r.self)
           /\ last' = WithPeer("moveAssign.self", r.other)
    /\ UNCHANGED <<prod, cons, delivered>>

\* The caller has looked at the result of its call and goes on.
Return ==
    /\ ~Between
    /\ last' = NoCall
    /\ UNCHANGED <<rbVars, prod, cons, accepted, delivered, consumed, ownVars>>

\* ------------------------------------------------------------------ Spec

\* The arguments the calls are tried with.
\* <<itemSize, itemCount>>
ItemArgs == SizeType \X SizeType

\* <<ptr is null, itemSize, itemCount>>
BulkArgs == {<<FALSE, a[1], a[2]>> : a \in ItemArgs} \cup {<<TRUE, 1, 1>>}

ValueSizes == {1, 2, 3}

ArgLists == {<<1>>, <<2, 1>>, <<1, 2>>, <<3, 1>>, <<1, 1, 2>>, <<3, 2>>}

\* The counts skip<T> is tried with.
SkipCounts == 0..3

\* The objects a buffer is move-assigned to: one without storage and one
\* with storage of its own.
Destinations == {NoFields, Allocated(NoFields, minCapacity, TRUE).fields}

\* A default-constructed RingBuffer.
Init ==
    /\ buffer_ = nullptr
    /\ capacity_ = 0
    /\ capacityMask_ = 0
    /\ writePosition_ = 0
    /\ readPosition_ = 0
    /\ prod = Idle
    /\ cons = Idle
    /\ accepted = <<>>
    /\ delivered = <<>>
    /\ consumed = 0
    /\ last = NoCall
    /\ objects = NoObjects
    /\ heap = NoRegions

\* A call of the public interface.
SomeCall ==
    \/ \E size \in SizeType, mallocOk \in BOOLEAN : Allocate(size, mallocOk)
    \/ Deallocate
    \/ \E a \in BulkArgs, allowPartial \in BOOLEAN : write(a[1], a[2], a[3], allowPartial)
    \/ \E a \in BulkArgs, allowPartial \in BOOLEAN : read(a[1], a[2], a[3], allowPartial)
    \/ \E a \in BulkArgs : peek(a[1], a[2], a[3])
    \/ \E size \in ValueSizes : writeValue(size)
    \/ \E size \in ValueSizes : readValue(size)
    \/ \E size \in ValueSizes : peekValue(size)
    \/ \E size \in ValueSizes, throws \in BOOLEAN : readValue_optional(size, throws)
    \/ \E size \in ValueSizes, throws \in BOOLEAN : peekValue_optional(size, throws)
    \/ moveConstructFrom
    \/ moveConstructInto
    \/ \E destination \in Destinations : moveAssignFrom(destination)
    \/ moveAssignSelf
    \/ \E a \in ItemArgs : skip(a[1], a[2])
    \/ \E a \in ItemArgs, allowPartial \in BOOLEAN :
           skip_allowPartial(a[1], a[2], allowPartial)
    \/ \E size \in ValueSizes, itemCount \in SkipCounts : skip_T(size, itemCount)
    \/ drain
    \/ \E count \in SizeType : commitWrite(count)
    \/ \E count \in SizeType : commitRead(count)
    \/ \E sizes \in ArgLists : writeValues(sizes)
    \/ \E sizes \in ArgLists : readValues(sizes)
    \/ writeVector_call
    \/ readVector_call
    \/ \E sizes \in ArgLists : peekValues(sizes)

\* The call a caller makes straight after another one, on its result.
FollowUp ==
    \/ last.op = "peek" /\ last.ok
       /\ \E allowPartial \in BOOLEAN :
              read(FALSE, last.itemSize, last.itemCount, allowPartial)
    \/ last.op = "writeValue" /\ readValue(last.itemSize)
    \/ last.op = "commitWrite" /\ read(FALSE, 1, availableBytes, TRUE)
    \/ last.op = "writeValues" /\ readValues(last.sizes)
    \/ last.op = "skip" /\ \E itemCount \in 1..2 : read(FALSE, 1, itemCount, TRUE)
    \/ last.op \in {"readValue<T>()", "peekValue<T>()"} /\ last.thrown
       /\ readValue_optional(last.itemSize, FALSE)
    \/ last.op \in {"moveConstruct.source", "moveAssign.source"}
       /\ \/ read(FALSE, 1, 1, TRUE)
          \/ writeValue(1)
          \/ peek(FALSE, 1, 1)
    \/ last.op = "moveConstruct.destination" /\ read(FALSE, 1, availableBytes, TRUE)
    \/ last.op = "Deallocate" /\ Deallocate
    \/ last.op = "drain" /\ drain

Next ==
    \/ Between /\ SomeCall /\ UNCHANGED ownVars
    \/ ~Between /\ Ready /\ FollowUp /\ UNCHANGED ownVars
    \/ Return

Spec == Init /\ [][Next]_vars

\* ------------------------- SpecSPSC: one producer thread, one consumer
\*
\* Each thread runs write (read) as the code does, one access to shared
\* memory per step: the load of the first cursor, the load of the second,
\* every byte the memcpys move, the release store of the cursor.  The
\* acquire load of the other thread's cursor pairs with its release store,
\* so the steps of the two threads interleave.

\* The physical offsets the producer may store to: those the memcpys of
\* write are writing, those of the vector writeVector returned.
ProducerRange ==
    IF prod.pc = "copy"
    THEN {CopyOffset(prod.writePos, k, prod.bytes) : k \in 0..(prod.bytes - 1)}
    ELSE IF prod.pc = "vector"
         THEN {VectorOffset(prod.vec, k) : k \in 0..(prod.bytes - 1)}
         ELSE IF prod.pc = "values"
              THEN {ValuesOffset(prod.vec, prod.sizes, k) : k \in 0..(prod.bytes - 1)}
              ELSE {}

\* The physical offsets the consumer may load from: those the memcpys of
\* read or peek are reading, those of the vector readVector returned.
ConsumerRange ==
    IF cons.pc \in {"copy", "peekCopy"}
    THEN {CopyOffset(cons.readPos, k, cons.bytes) : k \in 0..(cons.bytes - 1)}
    ELSE IF cons.pc = "vector"
         THEN {VectorOffset(cons.vec, k) : k \in 0..(cons.bytes - 1)}
         ELSE IF cons.pc = "values"
              THEN {ValuesOffset(cons.vec, cons.sizes, k) : k \in 0..(cons.bytes - 1)}
              ELSE {}

\* What a load of the byte at offset off can give: the byte stored there,
\* or anything when the producer's memcpy is writing it.
LoadShared(off) ==
    IF off \in ProducerRange
    THEN {Load(buffer_, off), Garbage}
    ELSE {Load(buffer_, off)}

\* write: the argument check and the load of writePosition_.
write_enter(itemSize, itemCount, allowPartial) ==
    /\ prod.pc = "idle"
    /\ Len(accepted) < MaxBytes
    /\ IF itemSize = 0 \/ itemCount = 0 \/ capacity_ = 0
       THEN prod' = Idle
       ELSE prod' = [Idle EXCEPT !.pc = "loaded", !.itemSize = itemSize,
                                 !.itemCount = itemCount,
                                 !.allowPartial = allowPartial,
                                 !.writePos = writePosition_,
                                 !.data = Source(itemSize * itemCount)]
    /\ UNCHANGED <<rbVars, cons, ghostVars, ownVars>>

\* writeValue(value): write(&value, sizeof value, 1, false).
writeValue_enter(size) ==
    write_enter(size, 1, FALSE)

\* write that publishes the new write location before it copies the bytes.
write_loadReadPosition_publishes ==
    /\ prod.pc = "loaded"
    /\ LET items == writeItems(prod.writePos, readPosition_, prod.itemSize,
                               prod.itemCount, prod.allowPartial)
       IN  /\ prod' = IF items = 0 THEN Idle
                      ELSE [prod EXCEPT !.pc = "copy", !.readPos = readPosition_,
                                        !.items = items,
                                        !.bytes = Mul(items, prod.itemSize),
                                        !.k = 0]
           /\ writePosition_' = IF items = 0 THEN writePosition_
                                ELSE Add(prod.writePos, Mul(items, prod.itemSize))
    /\ UNCHANGED <<buffer_, capacity_, capacityMask_, readPosition_, cons, ghostVars, ownVars>>

\* write: the acquire load of readPosition_ and the count of items to write;
\* the call returns 0 when there is no room.
write_loadReadPosition ==
    /\ prod.pc = "loaded"
    /\ LET items == writeItems(prod.writePos, readPosition_, prod.itemSize,
                               prod.itemCount, prod.allowPartial)
       IN  prod' = IF items = 0 THEN Idle
                   ELSE [prod EXCEPT !.pc = "copy", !.readPos = readPosition_,
                                     !.items = items,
                                     !.bytes = Mul(items, prod.itemSize),
                                     !.k = 0]
    /\ UNCHANGED <<rbVars, cons, ghostVars, ownVars>>

\* write: the memcpys store the next byte.
write_memcpy ==
    /\ prod.pc = "copy"
    /\ prod.k < prod.bytes
    /\ buffer_' = [buffer_ EXCEPT ![CopyOffset(prod.writePos, prod.k, prod.bytes) + 1] =
                                      Load(prod.data, prod.k)]
    /\ prod' = [prod EXCEPT !.k = @ + 1]
    /\ UNCHANGED <<capacity_, capacityMask_, writePosition_, readPosition_,
                   cons, ghostVars, ownVars>>

\* write that advances the write location by the bytes it was asked for.
write_store_bytesAsked ==
    /\ prod.pc = "copy"
    /\ prod.k = prod.bytes
    /\ writePosition_' = Add(prod.writePos, Mul(prod.itemSize, prod.itemCount))
    /\ accepted' = accepted \o SubSeq(prod.data, 1, prod.bytes)
    /\ prod' = Idle
    /\ UNCHANGED <<buffer_, capacity_, capacityMask_, readPosition_, cons,
                   delivered, consumed, last, ownVars>>

\* write: the release store of writePosition_, and the return of the count.
write_store ==
    /\ prod.pc = "copy"
    /\ prod.k = prod.bytes
    /\ writePosition_' = Add(prod.writePos, prod.bytes)
    /\ accepted' = accepted \o SubSeq(prod.data, 1, prod.bytes)
    /\ prod' = Idle
    /\ UNCHANGED <<buffer_, capacity_, capacityMask_, readPosition_, cons,
                   delivered, consumed, last, ownVars>>

\* read: the argument check and the acquire load of writePosition_.
read_enter(itemSize, itemCount, allowPartial) ==
    /\ cons.pc = "idle"
    /\ IF itemSize = 0 \/ itemCount = 0 \/ capacity_ = 0
       THEN cons' = Idle
       ELSE cons' = [Idle EXCEPT !.pc = "loaded", !.itemSize = itemSize,
                                 !.itemCount = itemCount,
                                 !.allowPartial = allowPartial,
                                 !.writePos = writePosition_]
    /\ UNCHANGED <<rbVars, prod, ghostVars, ownVars>>

\* readValue(value): read(&value, sizeof value, 1, false).
readValue_enter(size) ==
    read_enter(size, 1, FALSE)

\* read: the load of readPosition_ and the count of items to read; the call
\* returns 0 when there is not enough to read.
read_loadReadPosition ==
    /\ cons.pc = "loaded"
    /\ LET items == readItems(cons.writePos, readPosition_, cons.itemSize,
                              cons.itemCount, cons.allowPartial)
       IN  cons' = IF items = 0 THEN Idle
                   ELSE [cons EXCEPT !.pc = "copy", !.readPos = readPosition_,
                                     !.items = items,
                                     !.bytes = Mul(items, cons.itemSize),
                                     !.k = 0]
    /\ UNCHANGED <<rbVars, prod, ghostVars, ownVars>>

\* read: the memcpys load the next byte.
read_memcpy ==
    /\ cons.pc = "copy"
    /\ cons.k < cons.bytes
    /\ \E byte \in LoadShared(CopyOffset(cons.readPos, cons.k, cons.bytes)) :
           cons' = [cons EXCEPT !.k = @ + 1, !.data = Append(@, byte)]
    /\ UNCHANGED <<rbVars, prod, ghostVars, ownVars>>

\* read: the release store of readPosition_, and the return of the count.
read_store ==
    /\ cons.pc = "copy"
    /\ cons.k = cons.bytes
    /\ readPosition_' = Add(cons.readPos, cons.bytes)
    /\ delivered' = delivered \o cons.data
    /\ cons' = Idle
    /\ UNCHANGED <<buffer_, capacity_, capacityMask_, writePosition_, prod,
                   accepted, consumed, last, ownVars>>

\* The accessors either thread may call while the other is at work.
Accessors == {"freeSpace", "isFull", "availableBytes", "isEmpty"}

\* Accessors that take the buffer for empty when asked for the free space.
Observed_wholeCapacity(op, writePos, readPos) ==
    CASE op = "freeSpace" -> capacity_
      [] op = "isFull" -> Sub(writePos, readPos) = capacity_
      [] op = "availableBytes" -> Sub(writePos, readPos)
      [] op = "isEmpty" -> writePos = readPos

\* Accessors of a buffer that keeps one byte unused to tell full from empty.
Observed_reservesSlot(op, writePos, readPos) ==
    CASE op = "freeSpace" -> Sub(Sub(capacity_, Sub(writePos, readPos)), 1)
      [] op = "isFull" -> Sub(writePos, readPos) = Sub(capacity_, 1)
      [] op = "availableBytes" -> Sub(writePos, readPos)
      [] op = "isEmpty" -> writePos = readPos

\* What an accessor returns from the two cursors it loaded.
Observed(op, writePos, readPos) ==
    CASE op = "freeSpace" -> Sub(capacity_, Sub(writePos, readPos))
      [] op = "isFull" -> Sub(writePos, readPos) = capacity_
      [] op = "availableBytes" -> Sub(writePos, readPos)
      [] op = "isEmpty" -> writePos = readPos

\* The producer calls an accessor: the load of writePosition_.
producer_observe(op) ==
    /\ prod.pc = "idle"
    /\ prod' = [Idle EXCEPT !.pc = op, !.writePos = writePosition_]
    /\ UNCHANGED <<rbVars, cons, ghostVars, ownVars>>

\* The accessor loads readPosition_ and returns; the producer has the
\* result, <<accessor, value>>, until it makes its next call.
producer_observed ==
    /\ prod.pc \in Accessors
    /\ prod' = [Idle EXCEPT !.seen = <<prod.pc, Observed(prod.pc, prod.writePos,
                                                         readPosition_)>>]
    /\ UNCHANGED <<rbVars, cons, ghostVars, ownVars>>

\* The consumer calls an accessor: the load of writePosition_.
consumer_observe(op) ==
    /\ cons.pc = "idle"
    /\ cons' = [Idle EXCEPT !.pc = op, !.writePos = writePosition_]
    /\ UNCHANGED <<rbVars, prod, ghostVars, ownVars>>

\* The accessor loads readPosition_ and returns to the consumer.
consumer_observed ==
    /\ cons.pc \in Accessors
    /\ cons' = [Idle EXCEPT !.seen = <<cons.pc, Observed(cons.pc, cons.writePos,
                                                         readPosition_)>>]
    /\ UNCHANGED <<rbVars, prod, ghostVars, ownVars>>

\* peek: the argument check and the acquire load of writePosition_.
peek_enter(itemSize, itemCount) ==
    /\ cons.pc = "idle"
    /\ IF itemSize = 0 \/ itemCount = 0 \/ capacity_ = 0
       THEN cons' = Idle
       ELSE cons' = [Idle EXCEPT !.pc = "peekLoaded", !.itemSize = itemSize,
                                 !.itemCount = itemCount,
                                 !.writePos = writePosition_]
    /\ UNCHANGED <<rbVars, prod, ghostVars, ownVars>>

\* peek: the load of readPosition_; the call returns false when there are
\* fewer items than asked for.
peek_loadReadPosition ==
    /\ cons.pc = "peekLoaded"
    /\ LET items == peekItems(cons.writePos, readPosition_, cons.itemSize,
                              cons.itemCount)
       IN  cons' = IF items = 0 THEN Idle
                   ELSE [cons EXCEPT !.pc = "peekCopy", !.readPos = readPosition_,
                                     !.items = items,
                                     !.bytes = Mul(items, cons.itemSize),
                                     !.k = 0]
    /\ UNCHANGED <<rbVars, prod, ghostVars, ownVars>>

\* peek: the memcpys load the next byte.
peek_memcpy ==
    /\ cons.pc = "peekCopy"
    /\ cons.k < cons.bytes
    /\ \E byte \in LoadShared(CopyOffset(cons.readPos, cons.k, cons.bytes)) :
           cons' = [cons EXCEPT !.k = @ + 1, !.data = Append(@, byte)]
    /\ UNCHANGED <<rbVars, prod, ghostVars, ownVars>>

\* peek: the return; no cursor is stored.
peek_return ==
    /\ cons.pc = "peekCopy"
    /\ cons.k = cons.bytes
    /\ cons' = Idle
    /\ UNCHANGED <<rbVars, prod, ghostVars, ownVars>>

\* writeVector: the load of writePosition_.
writeVector_enter ==
    /\ prod.pc = "idle"
    /\ Len(accepted) < MaxBytes
    /\ prod' = [Idle EXCEPT !.pc = "writeVector", !.writePos = writePosition_]
    /\ UNCHANGED <<rbVars, cons, ghostVars, ownVars>>

\* writeVector: the acquire load of readPosition_ and the return of the
\* vector; with an empty vector the producer has nothing to store to.
writeVector_loadReadPosition ==
    /\ prod.pc = "writeVector"
    /\ LET vec == writeVectorAt(prod.writePos, readPosition_)
           size == vec[1].size + vec[2].size
       IN  prod' = IF size = 0 THEN Idle
                   ELSE [prod EXCEPT !.pc = "vector", !.readPos = readPosition_,
                                     !.vec = vec, !.bytes = size, !.k = 0,
                                     !.data = Source(size)]
    /\ UNCHANGED <<rbVars, cons, ghostVars, ownVars>>

\* The producer stores the next byte through the vector.
writeVector_store ==
    /\ prod.pc = "vector"
    /\ prod.k < prod.bytes
    /\ buffer_' = [buffer_ EXCEPT ![VectorOffset(prod.vec, prod.k) + 1] =
                                      Load(prod.data, prod.k)]
    /\ prod' = [prod EXCEPT !.k = @ + 1]
    /\ UNCHANGED <<capacity_, capacityMask_, writePosition_, readPosition_,
                   cons, ghostVars, ownVars>>

\* commitWrite(count), count the bytes the producer stored: the load of
\* writePosition_, which only the producer stores, and the release store.
commitWrite_store ==
    /\ prod.pc = "vector"
    /\ writePosition_' = commitWritePosition(writePosition_, prod.k)
    /\ accepted' = accepted \o SubSeq(prod.data, 1, prod.k)
    /\ prod' = Idle
    /\ UNCHANGED <<buffer_, capacity_, capacityMask_, readPosition_, cons,
                   delivered, consumed, last, ownVars>>

\* readVector: the acquire load of writePosition_.
readVector_enter ==
    /\ cons.pc = "idle"
    /\ cons' = [Idle EXCEPT !.pc = "readVector", !.writePos = writePosition_]
    /\ UNCHANGED <<rbVars, prod, ghostVars, ownVars>>

\* readVector: the load of readPosition_ and the return of the vector.
readVector_loadReadPosition ==
    /\ cons.pc = "readVector"
    /\ LET vec == readVectorAt(cons.writePos, readPosition_)
           size == vec[1].size + vec[2].size
       IN  cons' = IF size = 0 THEN Idle
                   ELSE [cons EXCEPT !.pc = "vector", !.readPos = readPosition_,
                                     !.vec = vec, !.bytes = size, !.k = 0]
    /\ UNCHANGED <<rbVars, prod, ghostVars, ownVars>>

\* The consumer loads the next byte through the vector.
readVector_load ==
    /\ cons.pc = "vector"
    /\ cons.k < cons.bytes
    /\ \E byte \in LoadShared(VectorOffset(cons.vec, cons.k)) :
           cons' = [cons EXCEPT !.k = @ + 1, !.data = Append(@, byte)]
    /\ UNCHANGED <<rbVars, prod, ghostVars, ownVars>>

\* commitRead(count), count the bytes the consumer loaded: the load of
\* readPosition_, which only the consumer stores, and the release store.
commitRead_store ==
    /\ cons.pc = "vector"
    /\ readPosition_' = commitReadPosition(readPosition_, cons.k)
    /\ delivered' = delivered \o cons.data
    /\ cons' = Idle
    /\ UNCHANGED <<buffer_, capacity_, capacityMask_, writePosition_, prod,
                   accepted, consumed, last, ownVars>>

\* writeValues: writeVector() loads writePosition_.
writeValues_enter(sizes) ==
    /\ prod.pc = "idle"
    /\ Len(accepted) < MaxBytes
    /\ prod' = [Idle EXCEPT !.pc = "writeValues", !.sizes = sizes,
                            !.writePos = writePosition_]
    /\ UNCHANGED <<rbVars, cons, ghostVars, ownVars>>

\* writeValues that commits the bytes before it copies them.
writeValues_loadReadPosition_commits ==
    /\ prod.pc = "writeValues"
    /\ LET vec == writeVectorAt(prod.writePos, readPosition_)
           fit == valuesFit(vec, prod.sizes)
       IN  /\ prod' = IF ~fit THEN Idle
                      ELSE [prod EXCEPT !.pc = "values", !.readPos = readPosition_,
                                        !.vec = vec,
                                        !.bytes = TotalSize(prod.sizes), !.k = 0,
                                        !.data = Source(TotalSize(prod.sizes))]
           /\ writePosition_' = IF ~fit THEN writePosition_
                                ELSE commitWritePosition(writePosition_,
                                                         TotalSize(prod.sizes))
    /\ UNCHANGED <<buffer_, capacity_, capacityMask_, readPosition_, cons, ghostVars, ownVars>>

\* writeValues: writeVector() loads readPosition_; the call returns false
\* when the arguments do not fit in the vector.
writeValues_loadReadPosition ==
    /\ prod.pc = "writeValues"
    /\ LET vec == writeVectorAt(prod.writePos, readPosition_)
       IN  prod' = IF ~valuesFit(vec, prod.sizes) THEN Idle
                   ELSE [prod EXCEPT !.pc = "values", !.readPos = readPosition_,
                                     !.vec = vec,
                                     !.bytes = TotalSize(prod.sizes), !.k = 0,
                                     !.data = Source(TotalSize(prod.sizes))]
    /\ UNCHANGED <<rbVars, cons, ghostVars, ownVars>>

\* writeValues: writeArg stores the next byte.
writeValues_memcpy ==
    /\ prod.pc = "values"
    /\ prod.k < prod.bytes
    /\ buffer_' = [buffer_ EXCEPT ![ValuesOffset(prod.vec, prod.sizes, prod.k) + 1] =
                                      Load(prod.data, prod.k)]
    /\ prod' = [prod EXCEPT !.k = @ + 1]
    /\ UNCHANGED <<capacity_, capacityMask_, writePosition_, readPosition_,
                   cons, ghostVars, ownVars>>

\* writeValues: commitWrite(totalSize), and the return of true.
writeValues_store ==
    /\ prod.pc = "values"
    /\ prod.k = prod.bytes
    /\ writePosition_' = commitWritePosition(writePosition_, TotalSize(prod.sizes))
    /\ accepted' = accepted \o prod.data
    /\ prod' = Idle
    /\ UNCHANGED <<buffer_, capacity_, capacityMask_, readPosition_, cons,
                   delivered, consumed, last, ownVars>>

\* readValues: peekValues calls readVector(), which loads writePosition_.
readValues_enter(sizes) ==
    /\ cons.pc = "idle"
    /\ cons' = [Idle EXCEPT !.pc = "readValues", !.sizes = sizes,
                            !.writePos = writePosition_]
    /\ UNCHANGED <<rbVars, prod, ghostVars, ownVars>>

\* readValues: readVector() loads readPosition_; the call returns false
\* when the vector has fewer bytes than the arguments.
readValues_loadReadPosition ==
    /\ cons.pc = "readValues"
    /\ LET vec == readVectorAt(cons.writePos, readPosition_)
       IN  cons' = IF ~valuesFit(vec, cons.sizes) THEN Idle
                   ELSE [cons EXCEPT !.pc = "values", !.readPos = readPosition_,
                                     !.vec = vec,
                                     !.bytes = TotalSize(cons.sizes), !.k = 0]
    /\ UNCHANGED <<rbVars, prod, ghostVars, ownVars>>

\* readValues: readArg loads the next byte.
readValues_memcpy ==
    /\ cons.pc = "values"
    /\ cons.k < cons.bytes
    /\ \E byte \in LoadShared(ValuesOffset(cons.vec, cons.sizes, cons.k)) :
           cons' = [cons EXCEPT !.k = @ + 1, !.data = Append(@, byte)]
    /\ UNCHANGED <<rbVars, prod, ghostVars, ownVars>>

\* readValues: commitRead(totalSize), and the return of true.
readValues_store ==
    /\ cons.pc = "values"
    /\ cons.k = cons.bytes
    /\ readPosition_' = commitReadPosition(readPosition_, TotalSize(cons.sizes))
    /\ delivered' = delivered \o cons.data
    /\ cons' = Idle
    /\ UNCHANGED <<buffer_, capacity_, capacityMask_, writePosition_, prod,
                   accepted, consumed, last, ownVars>>

\* The sizes of the arguments the two threads give writeValues and
\* readValues.
SPSCArgLists == {<<2, 1>>, <<1, 1, 2>>}

\* The requests the two threads make: <<itemSize, itemCount>>.
SPSCArgs == {<<0, 1>>, <<1, 1>>, <<1, 2>>, <<2, 1>>, <<2, 2>>, <<3, 1>>, <<3, 2>>}

\* A RingBuffer constructed with a capacity, nothing written yet.
InitSPSC ==
    /\ \E size \in minCapacity..maxCapacity :
           LET f == Allocated(Deallocated([buffer_ |-> nullptr, capacity_ |-> 0,
                                           capacityMask_ |-> 0,
                                           writePosition_ |-> 0,
                                           readPosition_ |-> 0]),
                              size, TRUE).fields
           IN  /\ buffer_ = f.buffer_
               /\ capacity_ = f.capacity_
               /\ capacityMask_ = f.capacityMask_
               /\ writePosition_ = f.writePosition_
               /\ readPosition_ = f.readPosition_
    /\ prod = Idle
    /\ cons = Idle
    /\ accepted = <<>>
    /\ delivered = <<>>
    /\ consumed = 0
    /\ last = NoCall
    /\ objects = NoObjects
    /\ heap = NoRegions

Producer ==
    \/ \E a \in SPSCArgs, allowPartial \in BOOLEAN : write_enter(a[1], a[2], allowPartial)
    \/ \E op \in Accessors : producer_observe(op)
    \/ producer_observed
    \/ \E size \in ValueSizes : writeValue_enter(size)
    \/ write_loadReadPosition
    \/ write_memcpy
    \/ write_store
    \/ writeVector_enter
    \/ writeVector_loadReadPosition
    \/ writeVector_store
    \/ commitWrite_store
    \/ \E sizes \in SPSCArgLists : writeValues_enter(sizes)
    \/ writeValues_loadReadPosition
    \/ writeValues_memcpy
    \/ writeValues_store

Consumer ==
    \/ \E a \in SPSCArgs, allowPartial \in BOOLEAN : read_enter(a[1], a[2], allowPartial)
    \/ \E op \in Accessors : consumer_observe(op)
    \/ consumer_observed
    \/ \E size \in ValueSizes : readValue_enter(size)
    \/ read_loadReadPosition
    \/ read_memcpy
    \/ read_store
    \/ \E a \in SPSCArgs : peek_enter(a[1], a[2])
    \/ peek_loadReadPosition
    \/ peek_memcpy
    \/ peek_return
    \/ readVector_enter
    \/ readVector_loadReadPosition
    \/ readVector_load
    \/ commitRead_store
    \/ \E sizes \in SPSCArgLists : readValues_enter(sizes)
    \/ readValues_loadReadPosition
    \/ readValues_memcpy
    \/ readValues_store

NextSPSC ==
    \/ Producer
    \/ Consumer

SpecSPSC == InitSPSC /\ [][NextSPSC]_vars

\* ------------------------------------------- the retry idiom (two threads)
\*
\* The test SPSCStressTestWithYield: the producer calls writeValue until it
\* accepts the value, for each of totalItems values; the consumer calls
\* readValue until it gives a value, totalItems times; main joins the two
\* threads and calls isEmpty().  The threads run the steps of write and read
\* above.  last holds the size of a value and, at the end, what isEmpty()
\* returned.

\* The test with values of size bytes, under way.
StressTest(size) ==
    [NoCall EXCEPT !.op = "SPSCStressTestWithYield", !.size = size]

\* The number of values the test transfers.
totalItems == MaxBytes \div last.size

\* The producer's loop: the next writeValue, the first for a value or the
\* one after a refusal and a yield.
producer_writeValue ==
    /\ last.op = "SPSCStressTestWithYield"
    /\ Len(accepted) < totalItems * last.size
    /\ writeValue_enter(last.size)

\* The consumer's loop: the next readValue.
consumer_readValue ==
    /\ last.op = "SPSCStressTestWithYield"
    /\ Len(delivered) < totalItems * last.size
    /\ readValue_enter(last.size)

\* Both threads have left their loops and are joined: EXPECT_TRUE(rb.isEmpty()).
main_isEmpty ==
    /\ last.op = "SPSCStressTestWithYield"
    /\ prod.pc = "idle"
    /\ cons.pc = "idle"
    /\ Len(accepted) = totalItems * last.size
    /\ Len(delivered) = totalItems * last.size
    /\ last' = [last EXCEPT !.op = "isEmpty", !.ok = isEmpty]
    /\ UNCHANGED <<rbVars, thrVars, accepted, delivered, consumed, ownVars>>

\* rb.allocate(bufferSize) with room for a value, and the two threads
\* about to start.
InitStress ==
    /\ \E size \in ValueSizes, bufferSize \in minCapacity..maxCapacity :
           LET f == Allocated(NoFields, bufferSize, TRUE).fields
           IN  /\ f.capacity_ >= size
               /\ buffer_ = f.buffer_
               /\ capacity_ = f.capacity_
               /\ capacityMask_ = f.capacityMask_
               /\ writePosition_ = f.writePosition_
               /\ readPosition_ = f.readPosition_
               /\ last = StressTest(size)
    /\ prod = Idle
    /\ cons = Idle
    /\ accepted = <<>>
    /\ delivered = <<>>
    /\ consumed = 0
    /\ objects = NoObjects
    /\ heap = NoRegions

ProducerThread ==
    \/ producer_writeValue
    \/ write_loadReadPosition
    \/ write_memcpy
    \/ write_store

ConsumerThread ==
    \/ consumer_readValue
    \/ read_loadReadPosition
    \/ read_memcpy
    \/ read_store

NextStress ==
    \/ ProducerThread
    \/ ConsumerThread
    \/ main_isEmpty

\* Each std::thread, and main, is scheduled again and again while it has a
\* step to take: yield() gives the processor up, it does not block.
SpecStress ==
    /\ InitStress
    /\ [][NextStress]_vars
    /\ WF_vars(ProducerThread)
    /\ WF_vars(ConsumerThread)
    /\ WF_vars(main_isEmpty)

\* ------------------ SpecObserve: each thread asks for what it has seen
\*
\* The idiom of the consumer of MixedProducerConsumerThroughput: a thread
\* looks at the space on its side (freeSpace() or writeVector() for the
\* producer, availableBytes() or readVector() for the consumer) and then
\* asks for no more than it saw, while the other thread runs.  The steps of
\* the calls are those of SpecSPSC; seen keeps what the thread saw.

\* The free space the producer saw and has not acted on yet.
ProducerSaw ==
    IF prod.pc = "idle" /\ prod.seen # <<>>
    THEN IF prod.seen[1] = "freeSpace" THEN prod.seen[2] ELSE 0
    ELSE IF prod.pc = "vector" /\ prod.k = 0 THEN prod.bytes ELSE 0

\* The bytes the consumer saw and has not acted on yet.
ConsumerSaw ==
    IF cons.pc = "idle" /\ cons.seen # <<>>
    THEN IF cons.seen[1] = "availableBytes" THEN cons.seen[2] ELSE 0
    ELSE IF cons.pc = "vector" /\ cons.k = 0 THEN cons.bytes ELSE 0

\* write(src, itemSize, itemCount, false) of no more bytes than seen.
write_asObserved(itemSize, itemCount) ==
    /\ itemSize * itemCount > 0
    /\ itemSize * itemCount <= ProducerSaw
    /\ Len(accepted) < MaxBytes
    /\ prod' = [Idle EXCEPT !.pc = "loaded", !.itemSize = itemSize,
                            !.itemCount = itemCount, !.allowPartial = FALSE,
                            !.writePos = writePosition_,
                            !.data = Source(itemSize * itemCount),
                            !.seen = <<"saw", ProducerSaw>>]
    /\ UNCHANGED <<rbVars, cons, ghostVars, ownVars>>

\* read(dst, itemSize, itemCount, false) of no more bytes than seen.
read_asObserved(itemSize, itemCount) ==
    /\ itemSize * itemCount > 0
    /\ itemSize * itemCount <= ConsumerSaw
    /\ cons' = [Idle EXCEPT !.pc = "loaded", !.itemSize = itemSize,
                            !.itemCount = itemCount, !.allowPartial = FALSE,
                            !.writePos = writePosition_,
                            !.seen = <<"saw", ConsumerSaw>>]
    /\ UNCHANGED <<rbVars, prod, ghostVars, ownVars>>

\* peek(dst, itemSize, itemCount) of no more bytes than seen.
peek_asObserved(itemSize, itemCount) ==
    /\ itemSize * itemCount > 0
    /\ itemSize * itemCount <= ConsumerSaw
    /\ cons' = [Idle EXCEPT !.pc = "peekLoaded", !.itemSize = itemSize,
                            !.itemCount = itemCount,
                            !.writePos = writePosition_,
                            !.seen = <<"saw", ConsumerSaw>>]
    /\ UNCHANGED <<rbVars, prod, ghostVars, ownVars>>

\* readValues(args...) of no more bytes than seen.
readValues_asObserved(sizes) ==
    /\ TotalSize(sizes) <= ConsumerSaw
    /\ cons' = [Idle EXCEPT !.pc = "readValues", !.sizes = sizes,
                            !.writePos = writePosition_,
                            !.seen = <<"saw", ConsumerSaw>>]
    /\ UNCHANGED <<rbVars, prod, ghostVars, ownVars>>

ObservingProducer ==
    \/ producer_observe("freeSpace")
    \/ producer_observed
    \/ writeVector_enter
    \/ writeVector_loadReadPosition
    \/ \E a \in SPSCArgs : write_asObserved(a[1], a[2])
    \/ write_loadReadPosition
    \/ write_memcpy
    \/ write_store
    \/ writeVector_store
    \/ commitWrite_store

ObservingConsumer ==
    \/ consumer_observe("availableBytes")
    \/ consumer_observed
    \/ readVector_enter
    \/ readVector_loadReadPosition
    \/ \E a \in SPSCArgs : read_asObserved(a[1], a[2])
    \/ read_loadReadPosition
    \/ read_memcpy
    \/ read_store
    \/ \E a \in SPSCArgs : peek_asObserved(a[1], a[2])
    \/ peek_loadReadPosition
    \/ peek_memcpy
    \/ peek_return
    \/ \E sizes \in SPSCArgLists : readValues_asObserved(sizes)
    \/ readValues_loadReadPosition
    \/ readValues_memcpy
    \/ readValues_store
    \/ readVector_load
    \/ commitRead_store

NextObserve ==
    \/ ObservingProducer
    \/ ObservingConsumer

SpecObserve == InitSPSC /\ [][NextObserve]_vars

\* ---------------- SpecDiscard: the consumer also skips and drains
\*
\* The producer of SpecSPSC with a consumer that reads, skips, drains and
\* commits reads, one access to shared memory per step.  delivered holds the
\* bytes the reads returned, consumed counts the bytes skip and drain
\* reported, and last is the last drain: ret the count it returned, count
\* the bytes that were queued at its store.

\* skip: the argument check and the acquire load of writePosition_.
skip_enter(itemSize, itemCount) ==
    /\ cons.pc = "idle"
    /\ IF itemSize = 0 \/ itemCount = 0 \/ capacity_ = 0
       THEN cons' = Idle
       ELSE cons' = [Idle EXCEPT !.pc = "skipLoaded", !.itemSize = itemSize,
                                 !.itemCount = itemCount,
                                 !.writePos = writePosition_]
    /\ UNCHANGED <<rbVars, prod, ghostVars, ownVars>>

\* skip: the load of readPosition_ and the count of items to skip; the call
\* returns 0 when not one item is queued.
skip_loadReadPosition ==
    /\ cons.pc = "skipLoaded"
    /\ LET items == skipItems(cons.writePos, readPosition_, cons.itemSize,
                              cons.itemCount)
       IN  cons' = IF items = 0 THEN Idle
                   ELSE [cons EXCEPT !.pc = "skip", !.readPos = readPosition_,
                                     !.items = items,
                                     !.bytes = Mul(items, cons.itemSize)]
    /\ UNCHANGED <<rbVars, prod, ghostVars, ownVars>>

\* skip: the release store of readPosition_, and the return of the count.
skip_store ==
    /\ cons.pc = "skip"
    /\ readPosition_' = Add(cons.readPos, cons.bytes)
    /\ consumed' = consumed + cons.bytes
    /\ cons' = Idle
    /\ UNCHANGED <<buffer_, capacity_, capacityMask_, writePosition_, prod,
                   accepted, delivered, last, ownVars>>

\* drain: the check of the capacity and the acquire load of writePosition_.
drain_enter ==
    /\ cons.pc = "idle"
    /\ IF capacity_ = 0
       THEN cons' = Idle
       ELSE cons' = [Idle EXCEPT !.pc = "drainLoaded", !.writePos = writePosition_]
    /\ UNCHANGED <<rbVars, prod, ghostVars, ownVars>>

\* drain: the load of readPosition_; the call returns 0 when nothing is
\* queued.
drain_loadReadPosition ==
    /\ cons.pc = "drainLoaded"
    /\ LET bytesUsed == drainBytes(cons.writePos, readPosition_)
       IN  cons' = IF bytesUsed = 0 THEN Idle
                   ELSE [cons EXCEPT !.pc = "drain", !.readPos = readPosition_,
                                     !.bytes = bytesUsed]
    /\ UNCHANGED <<rbVars, prod, ghostVars, ownVars>>

\* drain that moves the read location to where the write location is by
\* the time of the store.
drain_store_latest ==
    /\ cons.pc = "drain"
    /\ readPosition_' = writePosition_
    /\ consumed' = consumed + cons.bytes
    /\ last' = [NoCall EXCEPT !.op = "drain", !.ret = cons.bytes,
                              !.count = Sub(writePosition_, readPosition_)]
    /\ cons' = Idle
    /\ UNCHANGED <<buffer_, capacity_, capacityMask_, writePosition_, prod,
                   accepted, delivered, ownVars>>

\* drain: the release store of the write location it loaded into
\* readPosition_, and the return of the count.
drain_store ==
    /\ cons.pc = "drain"
    /\ readPosition_' = cons.writePos
    /\ consumed' = consumed + cons.bytes
    /\ last' = [NoCall EXCEPT !.op = "drain", !.ret = cons.bytes,
                              !.count = Sub(writePosition_, readPosition_)]
    /\ cons' = Idle
    /\ UNCHANGED <<buffer_, capacity_, capacityMask_, writePosition_, prod,
                   accepted, delivered, ownVars>>

DiscardingProducer ==
    \/ \E a \in SPSCArgs, allowPartial \in BOOLEAN : write_enter(a[1], a[2], allowPartial)
    \/ write_loadReadPosition
    \/ write_memcpy
    \/ write_store
    \/ writeVector_enter
    \/ writeVector_loadReadPosition
    \/ writeVector_store
    \/ commitWrite_store
    \/ \E sizes \in SPSCArgLists : writeValues_enter(sizes)
    \/ writeValues_loadReadPosition
    \/ writeValues_memcpy
    \/ writeValues_store

DiscardingConsumer ==
    \/ \E a \in SPSCArgs, allowPartial \in BOOLEAN : read_enter(a[1], a[2], allowPartial)
    \/ read_loadReadPosition
    \/ read_memcpy
    \/ read_store
    \/ \E a \in SPSCArgs : skip_enter(a[1], a[2])
    \/ skip_loadReadPosition
    \/ skip_store
    \/ drain_enter
    \/ drain_loadReadPosition
    \/ drain_store
    \/ readVector_enter
    \/ readVector_loadReadPosition
    \/ readVector_load
    \/ commitRead_store

\* The producer starts no call once it has written DiscardBytes bytes.
DiscardBytes == MaxBytes \div 2 - 1

NextDiscard ==
    \/ Len(accepted) < DiscardBytes /\ DiscardingProducer
    \/ DiscardingConsumer

SpecDiscard == InitSPSC /\ [][NextDiscard]_vars

\* ------------- SpecOrder: the accesses to the cursors and their orders
\*
\* Every operation of RingBuffer.hpp as the sequence of its atomic accesses
\* to the two cursors, each with the std::memory_order the source gives it.
\* A thread makes the accesses of its call one per step; seen is the access
\* it made last.

\* <<cursor, "load" or "store", memory order>>
Access(variable, kind, order) == <<variable, kind, order>>

ProducerOps == {"freeSpace", "isFull", "write", "writeVector", "commitWrite"}

ConsumerOps == {"availableBytes", "isEmpty", "read", "peek", "skip", "drain",
                "readVector", "commitRead"}

\* The operations with every access relaxed.
AccessesOf_relaxed(op) ==
    CASE op \in {"freeSpace", "isFull", "writeVector"} ->
             <<Access("writePosition_", "load", "relaxed"),
               Access("readPosition_", "load", "relaxed")>>
      [] op = "write" ->
             <<Access("writePosition_", "load", "relaxed"),
               Access("readPosition_", "load", "relaxed"),
               Access("writePosition_", "store", "relaxed")>>
      [] op = "commitWrite" ->
             <<Access("writePosition_", "load", "relaxed"),
               Access("readPosition_", "load", "relaxed"),
               Access("writePosition_", "load", "relaxed"),
               Access("writePosition_", "store", "relaxed")>>
      [] op \in {"availableBytes", "isEmpty", "peek", "readVector"} ->
             <<Access("writePosition_", "load", "relaxed"),
               Access("readPosition_", "load", "relaxed")>>
      [] op \in {"read", "skip", "drain"} ->
             <<Access("writePosition_", "load", "relaxed"),
               Access("readPosition_", "load", "relaxed"),
               Access("readPosition_", "store", "relaxed")>>
      [] op = "commitRead" ->
             <<Access("writePosition_", "load", "relaxed"),
               Access("readPosition_", "load", "relaxed"),
               Access("readPosition_", "load", "relaxed"),
               Access("readPosition_", "store", "relaxed")>>

\* The accesses of an operation, in program order.  commitWrite and
\* commitRead begin with those of the accessor in their assertion.
AccessesOf(op) ==
    CASE op \in {"freeSpace", "isFull", "writeVector"} ->
             <<Access("writePosition_", "load", "relaxed"),
               Access("readPosition_", "load", "acquire")>>
      [] op = "write" ->
             <<Access("writePosition_", "load", "relaxed"),
               Access("readPosition_", "load", "acquire"),
               Access("writePosition_", "store", "release")>>
      [] op = "commitWrite" ->
             <<Access("writePosition_", "load", "relaxed"),
               Access("readPosition_", "load", "acquire"),
               Access("writePosition_", "load", "relaxed"),
               Access("writePosition_", "store", "release")>>
      [] op \in {"availableBytes", "isEmpty", "peek", "readVector"} ->
             <<Access("writePosition_", "load", "acquire"),
               Access("readPosition_", "load", "relaxed")>>
      [] op \in {"read", "skip", "drain"} ->
             <<Access("writePosition_", "load", "acquire"),
               Access("readPosition_", "load", "relaxed"),
               Access("readPosition_", "store", "release")>>
      [] op = "commitRead" ->
             <<Access("writePosition_", "load", "acquire"),
               Access("readPosition_", "load", "relaxed"),
               Access("readPosition_", "load", "relaxed"),
               Access("readPosition_", "store", "release")>>

\* The thread after the access a: a load gives it the cursor; with both
\* cursors loaded the count of bytes is cut down to the space there is
\* (drain takes all of it).
Accessed(t, a, space) ==
    LET loaded == [t EXCEPT !.writePos = IF a[1] = "writePosition_" /\ a[2] = "load"
                                         THEN writePosition_ ELSE @,
                            !.readPos = IF a[1] = "readPosition_" /\ a[2] = "load"
                                        THEN readPosition_ ELSE @]
        room == IF space = "free"
                THEN Sub(capacity_, Sub(loaded.writePos, loaded.readPos))
                ELSE Sub(loaded.writePos, loaded.readPos)
    IN  [loaded EXCEPT !.k = @ + 1, !.seen = a,
                       !.bytes = IF t.k + 1 = 2
                                 THEN IF t.pc = "drain" THEN room ELSE Min(@, room)
                                 ELSE @]

\* The value a store of the thread puts in the cursor.
StoredValue(t) ==
    IF t.pc \in ProducerOps THEN Add(t.writePos, t.bytes)
    ELSE IF t.pc = "drain" THEN t.writePos
         ELSE Add(t.readPos, t.bytes)

\* The call is over: all its accesses are made, or write, read, skip or
\* drain found nothing to do.
Returns(t) ==
    \/ t.k = Len(AccessesOf(t.pc))
    \/ t.k = 2 /\ t.bytes = 0 /\ t.pc \in {"write", "read", "skip", "drain"}

producer_call(op, count) ==
    /\ prod.pc = "idle"
    /\ prod' = [Idle EXCEPT !.pc = op, !.bytes = count]
    /\ UNCHANGED <<rbVars, cons, ghostVars, ownVars>>

producer_access ==
    /\ prod.pc \in ProducerOps
    /\ ~Returns(prod)
    /\ LET a == AccessesOf(prod.pc)[prod.k + 1]
       IN  /\ prod' = Accessed(prod, a, "free")
           /\ writePosition_' = IF a[1] = "writePosition_" /\ a[2] = "store"
                                THEN StoredValue(prod) ELSE writePosition_
           /\ readPosition_' = IF a[1] = "readPosition_" /\ a[2] = "store"
                               THEN StoredValue(prod) ELSE readPosition_
    /\ UNCHANGED <<buffer_, capacity_, capacityMask_, cons, ghostVars, ownVars>>

producer_return ==
    /\ prod.pc \in ProducerOps
    /\ Returns(prod)
    /\ prod' = Idle
    /\ UNCHANGED <<rbVars, cons, ghostVars, ownVars>>

consumer_call(op, count) ==
    /\ cons.pc = "idle"
    /\ cons' = [Idle EXCEPT !.pc = op, !.bytes = count]
    /\ UNCHANGED <<rbVars, prod, ghostVars, ownVars>>

consumer_access ==
    /\ cons.pc \in ConsumerOps
    /\ ~Returns(cons)
    /\ LET a == AccessesOf(cons.pc)[cons.k + 1]
       IN  /\ cons' = Accessed(cons, a, "used")
           /\ writePosition_' = IF a[1] = "writePosition_" /\ a[2] = "store"
                                THEN StoredValue(cons) ELSE writePosition_
           /\ readPosition_' = IF a[1] = "readPosition_" /\ a[2] = "store"
                               THEN StoredValue(cons) ELSE readPosition_
    /\ UNCHANGED <<buffer_, capacity_, capacityMask_, prod, ghostVars, ownVars>>

consumer_return ==
    /\ cons.pc \in ConsumerOps
    /\ Returns(cons)
    /\ cons' = Idle
    /\ UNCHANGED <<rbVars, prod, ghostVars, ownVars>>

\* The counts of bytes the calls are made with.
OrderCounts == 1..2

NextOrder ==
    \/ \E op \in ProducerOps, count \in OrderCounts : producer_call(op, count)
    \/ producer_access
    \/ producer_return
    \/ \E op \in ConsumerOps, count \in OrderCounts : consumer_call(op, count)
    \/ consumer_access
    \/ consumer_return

SpecOrder == InitSPSC /\ [][NextOrder]_vars

\* ------------------------------------------------------- SFB::RingBuffer
\*
\* SFBRingBuffer.cpp: the same fields, cursors kept masked (always below
\* capacity_), one byte of the storage left unused to tell full from empty.
\* Whole calls, one thread, recorded in last as in Spec.

\* CapacityBytes()
SFB_CapacityBytes == IF capacity_ = 0 THEN 0 ELSE Sub(capacity_, 1)

\* The bytes to read between two cursors.
SFB_bytesToRead(writePosition, readPosition) ==
    IF writePosition > readPosition
    THEN Sub(writePosition, readPosition)
    ELSE BitAnd(Add(Sub(writePosition, readPosition), capacity_), capacityMask_)

\* The room to write of a buffer that uses all of its storage.
SFB_bytesToWrite_wholeStorage(writePosition, readPosition) ==
    IF writePosition > readPosition
    THEN BitAnd(Add(Sub(readPosition, writePosition), capacity_), capacityMask_)
    ELSE IF writePosition < readPosition
         THEN Sub(readPosition, writePosition)
         ELSE capacity_

\* The room to write between two cursors.
SFB_bytesToWrite(writePosition, readPosition) ==
    IF writePosition > readPosition
    THEN Sub(BitAnd(Add(Sub(readPosition, writePosition), capacity_), capacityMask_), 1)
    ELSE IF writePosition < readPosition
         THEN Sub(Sub(readPosition, writePosition), 1)
         ELSE Sub(capacity_, 1)

\* BytesAvailableToRead()
SFB_BytesAvailableToRead ==
    IF capacity_ = 0 THEN 0 ELSE SFB_bytesToRead(writePosition_, readPosition_)

\* BytesAvailableToWrite()
SFB_BytesAvailableToWrite ==
    IF capacity_ = 0 THEN 0 ELSE SFB_bytesToWrite(writePosition_, readPosition_)

\* The physical offset of byte k of a transfer of total bytes at pos: one
\* memcpy, or two when the transfer goes past the end of the storage.
SFB_CopyOffset(pos, k, total) ==
    IF Add(pos, total) > capacity_
    THEN LET bytesAfterPointer == Sub(capacity_, pos)
         IN  IF k < bytesAfterPointer THEN pos + k ELSE k - bytesAfterPointer
    ELSE pos + k

\* The fields after Deallocate().
SFB_Deallocated(f) ==
    IF f.buffer_ # nullptr THEN NoFields ELSE f

\* The fields after Allocate(size), and its result.
SFB_Allocated(f, size, mallocOk) ==
    IF size < 2 \/ size > Mod \div 2
    THEN [fields |-> f, ret |-> FALSE]
    ELSE LET d == SFB_Deallocated(f)
             sz == bit_ceil(size)
         IN  IF ~mallocOk
             THEN [fields |-> d, ret |-> FALSE]
             ELSE [fields |-> [buffer_ |-> [i \in 1..sz |-> Garbage],
                               capacity_ |-> sz, capacityMask_ |-> Sub(sz, 1),
                               writePosition_ |-> 0, readPosition_ |-> 0],
                   ret |-> TRUE]

SFB_Allocate(size, mallocOk) ==
    /\ LET r == SFB_Allocated(Fields, size, mallocOk)
       IN  /\ SetFields(r.fields)
           /\ last' = Call("Allocate", [NoArgs EXCEPT !.size = size, !.mallocOk = mallocOk],
                           0, r.ret, <<>>)
    /\ UNCHANGED <<prod, cons, delivered>>

SFB_Deallocate ==
    /\ SetFields(SFB_Deallocated(Fields))
    /\ last' = Call("Deallocate", NoArgs, 0, TRUE, <<>>)
    /\ UNCHANGED <<prod, cons, delivered>>

\* Reset(): both cursors back to 0, what was queued is dropped.
SFB_Reset ==
    /\ writePosition_' = 0
    /\ readPosition_' = 0
    /\ consumed' = Len(accepted)
    /\ last' = Call("Reset", NoArgs, 0, TRUE, <<>>)
    /\ UNCHANGED <<buffer_, capacity_, capacityMask_, prod, cons, accepted, delivered>>

\* Write(source, count, allowPartial)
SFB_Write(sourceNull, count, allowPartial) ==
    /\ Len(accepted) < MaxBytes
    /\ LET bytesAvailable == SFB_bytesToWrite(writePosition_, readPosition_)
           bytesToWrite ==
               IF sourceNull \/ count = 0 \/ capacity_ = 0 THEN 0
               ELSE IF bytesAvailable = 0 \/ (bytesAvailable < count /\ ~allowPartial)
                    THEN 0
                    ELSE Min(bytesAvailable, count)
           src == Source(count)
       IN  /\ buffer_' =
                 [j \in 1..Len(buffer_) |->
                     IF \E k \in 0..(bytesToWrite - 1) :
                            SFB_CopyOffset(writePosition_, k, bytesToWrite) = j - 1
                     THEN Load(src, CHOOSE k \in 0..(bytesToWrite - 1) :
                                        SFB_CopyOffset(writePosition_, k, bytesToWrite) = j - 1)
                     ELSE buffer_[j]]
           /\ writePosition_' = IF bytesToWrite = 0 THEN writePosition_
                                ELSE BitAnd(Add(writePosition_, bytesToWrite), capacityMask_)
           /\ accepted' = accepted \o SubSeq(src, 1, bytesToWrite)
           /\ last' = Call("Write", [NoArgs EXCEPT !.ptrNull = sourceNull, !.count = count,
                                                   !.allowPartial = allowPartial],
                           bytesToWrite, bytesToWrite # 0, <<>>)
    /\ UNCHANGED <<capacity_, capacityMask_, readPosition_, prod, cons,
                   delivered, consumed>>

\* Read(destination, count, allowPartial)
SFB_Read(destinationNull, count, allowPartial) ==
    /\ LET bytesAvailable == SFB_bytesToRead(writePosition_, readPosition_)
           bytesToRead ==
               IF destinationNull \/ count = 0 \/ capacity_ = 0 THEN 0
               ELSE IF bytesAvailable = 0 \/ (bytesAvailable < count /\ ~allowPartial)
                    THEN 0
                    ELSE Min(bytesAvailable, count)
       IN  /\ readPosition_' = IF bytesToRead = 0 THEN readPosition_
                               ELSE BitAnd(Add(readPosition_, bytesToRead), capacityMask_)
           /\ consumed' = consumed + bytesToRead
           /\ last' = Call("Read", [NoArgs EXCEPT !.ptrNull = destinationNull,
                                                  !.count = count,
                                                  !.allowPartial = allowPartial],
                           bytesToRead, bytesToRead # 0,
                           [i \in 1..bytesToRead |->
                               Load(buffer_, SFB_CopyOffset(readPosition_, i - 1, bytesToRead))])
    /\ UNCHANGED <<buffer_, capacity_, capacityMask_, writePosition_, prod, cons,
                   accepted, delivered>>

\* A ReadBuffer or WriteBuffer { buffer_ + offset, size }.
SFB_Buffer(offset, size) ==
    [null |-> (buffer_ = nullptr /\ offset = 0), offset |-> offset, size |-> size]

\* The pair GetReadVector() returns for two cursors.
SFB_ReadBufferPair(writePosition, readPosition) ==
    LET bytesAvailable == SFB_bytesToRead(writePosition, readPosition)
        endOfRead == Add(readPosition, bytesAvailable)
    IN  IF endOfRead > capacity_
        THEN <<SFB_Buffer(readPosition, Sub(capacity_, readPosition)),
               SFB_Buffer(0, BitAnd(endOfRead, capacity_))>>
        ELSE <<SFB_Buffer(readPosition, bytesAvailable), EmptySpan>>

\* The pair GetWriteVector() returns for two cursors.
SFB_WriteBufferPair(writePosition, readPosition) ==
    LET bytesAvailable == SFB_bytesToWrite(writePosition, readPosition)
        endOfWrite == Add(writePosition, bytesAvailable)
    IN  IF endOfWrite > capacity_
        THEN <<SFB_Buffer(writePosition, Sub(capacity_, writePosition)),
               SFB_Buffer(0, BitAnd(endOfWrite, capacity_))>>
        ELSE <<SFB_Buffer(writePosition, bytesAvailable), EmptySpan>>

\* GetReadVector(): ret is the sum of the two lengths.
SFB_GetReadVector ==
    /\ LET v == SFB_ReadBufferPair(writePosition_, readPosition_)
       IN  last' = Call("GetReadVector", NoArgs, v[1].size + v[2].size,
                        ~v[2].null, <<>>)
    /\ UNCHANGED <<rbVars, prod, cons, accepted, delivered, consumed>>

\* GetWriteVector(): ret is the sum of the two lengths.
SFB_GetWriteVector ==
    /\ LET v == SFB_WriteBufferPair(writePosition_, readPosition_)
       IN  last' = Call("GetWriteVector", NoArgs, v[1].size + v[2].size,
                        ~v[2].null, <<>>)
    /\ UNCHANGED <<rbVars, prod, cons, accepted, delivered, consumed>>

\* <<pointer is null, count>>
SFBArgs == {<<FALSE, count>> : count \in SizeType} \cup {<<TRUE, 1>>}

SFBCall ==
    \/ \E size \in SizeType, mallocOk \in BOOLEAN : SFB_Allocate(size, mallocOk)
    \/ SFB_Deallocate
    \/ SFB_Reset
    \/ \E a \in SFBArgs, allowPartial \in BOOLEAN : SFB_Write(a[1], a[2], allowPartial)
    \/ \E a \in SFBArgs, allowPartial \in BOOLEAN : SFB_Read(a[1], a[2], allowPartial)
    \/ SFB_GetReadVector
    \/ SFB_GetWriteVector

\* A default-constructed SFB::RingBuffer; then one call after the other.
NextSFB ==
    \/ Between /\ SFBCall /\ UNCHANGED ownVars
    \/ Return

SpecSFB == Init /\ [][NextSFB]_vars

\* ------------------------------------- SFB::RingBuffer: multiple values
\*
\* WriteValues and ReadValues of SFBRingBuffer.hpp, on the vectors above
\* (the header calls them WriteVector() and ReadVector()).

\* AdvanceWritePosition(byteCount), AdvanceReadPosition(byteCount): the
\* cursor after it.
SFB_Advanced(position, byteCount) == BitAnd(Add(position, byteCount), capacityMask_)

\* The bytes of an argument of len bytes that go to the first buffer when
\* done bytes were transferred before it.
SFB_ToFirst(vec, done, len) ==
    IF vec[1].size > done THEN Min(len, Sub(vec[1].size, done)) ELSE 0

\* memcpy(buf + offset, src + from, n): the storage after it.
SFB_Copied(buf, offset, src, from, n) ==
    [p \in 1..Len(buf) |->
        IF offset <= p - 1 /\ p - 1 < offset + n
        THEN Load(src, from + (p - 1 - offset))
        ELSE buf[p]]

\* The storage after the first j arguments of WriteValues were copied: of
\* each the first n bytes to the first buffer, and then, when bytes remain,
\* as many bytes from the start of the same argument to the second buffer.
RECURSIVE SFB_WrittenValues(_, _, _, _, _)
SFB_WrittenValues(buf, vec, sizes, src, j) ==
    IF j = 0 THEN buf
    ELSE LET bytesWritten == SumTo(sizes, j - 1)
             n == SFB_ToFirst(vec, bytesWritten, sizes[j])
             bytesRemaining == sizes[j] - n
             b0 == SFB_WrittenValues(buf, vec, sizes, src, j - 1)
             b1 == SFB_Copied(b0, vec[1].offset + bytesWritten, src, bytesWritten, n)
         IN  IF bytesRemaining > 0
             THEN SFB_Copied(b1, vec[2].offset + Sub(bytesWritten + n, vec[1].size),
                             src, bytesWritten, bytesRemaining)
             ELSE b1

\* Byte i (from 0) of argument j after ReadValues: the second memcpy goes to
\* the start of the argument as the first one did; a byte that neither
\* reaches keeps what the caller had there.
SFB_ReadByte(vec, sizes, j, i) ==
    LET bytesRead == SumTo(sizes, j - 1)
        n == SFB_ToFirst(vec, bytesRead, sizes[j])
        bytesRemaining == sizes[j] - n
    IN  IF i < bytesRemaining
        THEN Load(buffer_, vec[2].offset + Sub(bytesRead + n, vec[1].size) + i)
        ELSE IF i < n
             THEN Load(buffer_, vec[1].offset + bytesRead + i)
             ELSE Garbage

\* The arguments after ReadValues, concatenated.
SFB_ReadArgs(vec, sizes) ==
    [k \in 1..TotalSize(sizes) |->
        LET j == ArgOf(sizes, k - 1)
        IN  SFB_ReadByte(vec, sizes, j, (k - 1) - SumTo(sizes, j - 1))]

\* WriteValues(args...)
SFB_WriteValues(sizes) ==
    /\ Len(accepted) < MaxBytes
    /\ LET totalSize == TotalSize(sizes)
           wvec == SFB_WriteBufferPair(writePosition_, readPosition_)
           fit == ~(Add(wvec[1].size, wvec[2].size) < totalSize)
           src == Source(totalSize)
       IN  /\ buffer_' = IF fit
                         THEN SFB_WrittenValues(buffer_, wvec, sizes, src, Len(sizes))
                         ELSE buffer_
           /\ writePosition_' = IF fit THEN SFB_Advanced(writePosition_, totalSize)
                                ELSE writePosition_
           /\ accepted' = IF fit THEN accepted \o src ELSE accepted
           /\ last' = Call("WriteValues", [NoArgs EXCEPT !.sizes = sizes], 0, fit, <<>>)
    /\ UNCHANGED <<capacity_, capacityMask_, readPosition_, prod, cons,
                   delivered, consumed>>

\* ReadValues(args...)
SFB_ReadValues(sizes) ==
    /\ LET totalSize == TotalSize(sizes)
           rvec == SFB_ReadBufferPair(writePosition_, readPosition_)
           fit == ~(Add(rvec[1].size, rvec[2].size) < totalSize)
       IN  /\ readPosition_' = IF fit THEN SFB_Advanced(readPosition_, totalSize)
                               ELSE readPosition_
           /\ consumed' = IF fit THEN consumed + totalSize ELSE consumed
           /\ last' = Call("ReadValues", [NoArgs EXCEPT !.sizes = sizes], 0, fit,
                           IF fit THEN SFB_ReadArgs(rvec, sizes) ELSE <<>>)
    /\ UNCHANGED <<buffer_, capacity_, capacityMask_, writePosition_, prod, cons,
                   accepted, delivered>>

SFBValuesCall ==
    \/ \E size \in SizeType, mallocOk \in BOOLEAN : SFB_Allocate(size, mallocOk)
    \/ \E a \in SFBArgs, allowPartial \in BOOLEAN : SFB_Write(a[1], a[2], allowPartial)
    \/ \E a \in SFBArgs, allowPartial \in BOOLEAN : SFB_Read(a[1], a[2], allowPartial)
    \/ \E sizes \in ArgLists : SFB_WriteValues(sizes)
    \/ \E sizes \in ArgLists : SFB_ReadValues(sizes)

\* A default-constructed SFB::RingBuffer; one call after the other, or
\* ReadValues of the same types straight after WriteValues, until MaxBytes
\* bytes were taken out.
NextSFBValues ==
    \/ Between /\ consumed < MaxBytes /\ SFBValuesCall /\ UNCHANGED ownVars
    \/ ~Between /\ Ready /\ last.op = "WriteValues" /\ SFB_ReadValues(last.sizes)
       /\ UNCHANGED ownVars
    \/ Return

SpecSFBValues == Init /\ [][NextSFBValues]_vars

\* ------------------------------------------ the owners of the regions
\*
\* RingBuffer.cpp, the members that construct, move and destroy: a program
\* with several RingBuffer objects and the allocator they share.  Here
\* buffer_ is the pointer itself: nullptr, or <<p>> for region p.

\* std::free(ptr): nothing for a null pointer; a region that is not
\* allocated (freed before, or never handed out) is corrupted.
Free(h, ptr) ==
    IF ptr = nullptr THEN h
    ELSE [h EXCEPT ![ptr[1]] = IF @ = "allocated" THEN "released" ELSE "corrupt"]

\* The regions std::malloc can return.
Available(h) == {p \in Regions : h[p] \in {"unused", "released"}}

\* RingBuffer() noexcept = default
own_Construct(o) ==
    /\ ~objects[o].live
    /\ objects' = [objects EXCEPT ![o] = [live |-> TRUE, fields |-> NoFields]]
    /\ UNCHANGED <<heap, rbVars, thrVars, ghostVars>>

\* Allocate(size) on the object o; the allocator gives region p, or refuses.
own_Allocate(o, size, mallocOk) ==
    /\ objects[o].live
    /\ LET f == objects[o].fields
           inRange == ~(size < minCapacity \/ size > maxCapacity)
           freed == IF inRange THEN Free(heap, f.buffer_) ELSE heap
       IN  IF inRange /\ mallocOk
           THEN \E p \in Available(freed) :
                    /\ objects' = [objects EXCEPT ![o].fields =
                                      [Allocated(f, size, TRUE).fields
                                           EXCEPT !.buffer_ = <<p>>]]
                    /\ heap' = [freed EXCEPT ![p] = "allocated"]
           ELSE /\ objects' = [objects EXCEPT ![o].fields =
                                  Allocated(f, size, FALSE).fields]
                /\ heap' = freed
    /\ UNCHANGED <<rbVars, thrVars, ghostVars>>

\* Deallocate() on the object o.
own_Deallocate(o) ==
    /\ objects[o].live
    /\ heap' = Free(heap, objects[o].fields.buffer_)
    /\ objects' = [objects EXCEPT ![o].fields = Deallocated(@)]
    /\ UNCHANGED <<rbVars, thrVars, ghostVars>>

\* RingBuffer(size): the object is constructed when size is in range and
\* the allocator gives a region; otherwise the constructor throws and there
\* is no object.
own_ConstructSized(o, size, mallocOk) ==
    /\ ~objects[o].live
    /\ IF size < minCapacity \/ size > maxCapacity \/ ~mallocOk
       THEN UNCHANGED <<objects, heap>>
       ELSE \E p \in Available(heap) :
                /\ objects' = [objects EXCEPT ![o] =
                                  [live |-> TRUE,
                                   fields |-> [Allocated(NoFields, size, TRUE).fields
                                                   EXCEPT !.buffer_ = <<p>>]]]
                /\ heap' = [heap EXCEPT ![p] = "allocated"]
    /\ UNCHANGED <<rbVars, thrVars, ghostVars>>

\* RingBuffer(RingBuffer&& other): the object dst is constructed from src.
own_MoveConstruct(dst, src) ==
    /\ ~objects[dst].live
    /\ objects[src].live
    /\ LET r == MoveConstructed(objects[src].fields)
       IN  objects' = [objects EXCEPT ![src].fields = r.other,
                                      ![dst] = [live |-> TRUE, fields |-> r.self]]
    /\ UNCHANGED <<heap, rbVars, thrVars, ghostVars>>

\* A move assignment without the check for self-assignment: the object
\* frees its storage and then takes its own fields back.
own_MoveAssign_unchecked(dst, src) ==
    /\ objects[dst].live
    /\ objects[src].live
    /\ LET r == MoveAssigned(objects[dst].fields, objects[src].fields, dst = src)
       IN  /\ heap' = Free(heap, objects[dst].fields.buffer_)
           /\ objects' = [objects EXCEPT ![src].fields = r.other,
                                         ![dst].fields = r.self]
    /\ UNCHANGED <<rbVars, thrVars, ghostVars>>

\* operator=(RingBuffer&& other) on the object dst with other = src; dst
\* and src can be the same object.
own_MoveAssign(dst, src) ==
    /\ objects[dst].live
    /\ objects[src].live
    /\ LET r == MoveAssigned(objects[dst].fields, objects[src].fields, dst = src)
       IN  /\ heap' = IF dst # src THEN Free(heap, objects[dst].fields.buffer_)
                      ELSE heap
           /\ objects' = [objects EXCEPT ![src].fields = r.other,
                                         ![dst].fields = r.self]
    /\ UNCHANGED <<rbVars, thrVars, ghostVars>>

\* ~RingBuffer()
own_Destroy(o) ==
    /\ objects[o].live
    /\ heap' = Free(heap, objects[o].fields.buffer_)
    /\ objects' = [objects EXCEPT ![o] = NoObjects[o]]
    /\ UNCHANGED <<rbVars, thrVars, ghostVars>>

NextOwn ==
    \/ \E o \in Objects : own_Construct(o)
    \/ \E o \in Objects, size \in SizeType, mallocOk \in BOOLEAN :
           own_ConstructSized(o, size, mallocOk)
    \/ \E o \in Objects, size \in SizeType, mallocOk \in BOOLEAN :
           own_Allocate(o, size, mallocOk)
    \/ \E o \in Objects : own_Deallocate(o)
    \/ \E dst \in Objects, src \in Objects : own_MoveConstruct(dst, src)
    \/ \E dst \in Objects, src \in Objects : own_MoveAssign(dst, src)
    \/ \E o \in Objects : own_Destroy(o)

SpecOwn == Init /\ [][NextOwn]_vars

\* ---------------------------------------------------------------- claims

\* The bytes queued: accepted from the producer and not yet taken off.
Queue == SubSeq(accepted, consumed + 1, Len(accepted))

IsPowerOfTwo(x) == \E e \in 0..IndexBits : x = 2^e

\* The last call was a bulk call that passes the argument checks.
ValidBulk ==
    /\ ~last.ptrNull
    /\ last.itemSize # 0
    /\ last.itemCount # 0
    /\ last.pre.capacity_ # 0

\* What the last call asked for, in bytes (not reduced to SizeType).
BytesAsked == last.itemSize * last.itemCount

\* What the last call transferred, in bytes.
BytesDone == last.ret * last.itemSize

\* The bytes queued and the bytes free before the last call.
UsedBefore == Len(last.front)

FreeBefore == last.pre.capacity_ - Len(last.front)

\* The physical offsets of the two cursors before the last call.
WriteIndexBefore == last.pre.writePosition_ % last.pre.capacity_

ReadIndexBefore == last.pre.readPosition_ % last.pre.capacity_

\* C2: an allocated buffer holds exactly capacity() bytes.  A write of
\* capacity() bytes into an empty buffer is accepted in full, wherever the
\* cursors are, and leaves the buffer full (isFull(), freeSpace() = 0,
\* availableBytes() = capacity()); a write into a full buffer returns 0 and
\* changes nothing; isEmpty() holds exactly when nothing is queued and
\* isFull() exactly when capacity() bytes are.
C2_HoldsExactlyCapacity ==
    /\ (/\ last.op = "write"
        /\ ValidBulk
        /\ UsedBefore = 0
        /\ BytesAsked = last.pre.capacity_)
       => /\ last.ret = last.itemCount
          /\ isFull
          /\ freeSpace = 0
          /\ availableBytes = capacity
          /\ Len(Queue) = capacity
    /\ (/\ last.op = "write"
        /\ last.pre.capacity_ # 0
        /\ UsedBefore = last.pre.capacity_)
       => /\ last.ret = 0
          /\ Fields = last.pre
    /\ capacity_ # 0 => /\ isEmpty <=> Len(Queue) = 0
                        /\ isFull <=> Len(Queue) = capacity

\* A write filled an empty buffer whose cursors were not at offset 0.
C2_Witness ==
    /\ last.op = "write"
    /\ ValidBulk
    /\ UsedBefore = 0
    /\ WriteIndexBefore # 0
    /\ BytesAsked = last.pre.capacity_
    /\ isFull

\* C3: on an allocated buffer, availableBytes() + freeSpace() = capacity()
\* after any sequence of calls.
C3_AvailablePlusFree == capacity_ # 0 => availableBytes + freeSpace = capacity

\* A skip left a partly filled buffer whose write cursor has wrapped the
\* index type.
C3_Witness ==
    /\ last.op = "skip"
    /\ last.ret > 0
    /\ 0 < availableBytes
    /\ availableBytes < capacity
    /\ writePosition_ < readPosition_

\* C4: a successful allocate(n) leaves capacity() the smallest power of two
\* that is not less than n, and the buffer empty, whatever it held before.
C4_AllocateRoundsUp ==
    (last.op = "Allocate" /\ last.ok)
    => /\ last.size >= minCapacity
       /\ last.size <= maxCapacity
       /\ IsPowerOfTwo(capacity)
       /\ capacity >= last.size
       /\ capacity < 2 * last.size
       /\ availableBytes = 0
       /\ freeSpace = capacity
       /\ isEmpty
       /\ Queue = <<>>

\* A buffer that held unread data was allocated again with another capacity.
C4_Witness ==
    /\ last.op = "Allocate"
    /\ last.ok
    /\ last.pre.capacity_ # 0
    /\ last.pre.capacity_ # capacity_
    /\ last.pre.writePosition_ # last.pre.readPosition_

\* C5: after Allocate(n) with n a power of two, Capacity() = n and
\* FreeSpace() = Capacity(); after Deallocate() both are 0.
C5_CapacityIsAllocatedSize ==
    /\ (last.op = "Allocate" /\ last.ok /\ IsPowerOfTwo(last.size))
       => /\ Capacity = last.size
          /\ FreeSpace = Capacity
    /\ last.op = "Deallocate" => /\ Capacity = 0
                                 /\ FreeSpace = 0

\* C6: allocate(n) with n out of range returns false and leaves the object
\* as it was.
C6_AllocateRejects ==
    (last.op = "Allocate" /\ (last.size < minCapacity \/ last.size > maxCapacity))
    => /\ ~last.ok
       /\ Fields = last.pre
       /\ Queue = last.front

\* A buffer holding unread data was asked for more than maxCapacity.
C6_Witness ==
    /\ last.op = "Allocate"
    /\ last.size > maxCapacity
    /\ last.pre.buffer_ # nullptr
    /\ last.front # <<>>
    /\ buffer_ = last.pre.buffer_

\* C7: when the allocator refuses an in-range request, allocate returns
\* false and the buffer is unallocated.
C7_AllocatorRefuses ==
    (/\ last.op = "Allocate"
     /\ last.size >= minCapacity
     /\ last.size <= maxCapacity
     /\ ~last.mallocOk)
    => /\ ~last.ok
       /\ ~operatorBool
       /\ capacity = 0
       /\ capacityMask_ = 0
       /\ writePosition_ = 0
       /\ readPosition_ = 0

\* The allocator refused a request on a buffer that was allocated.
C7_Witness ==
    /\ last.op = "Allocate"
    /\ ~last.mallocOk
    /\ ~last.ok
    /\ last.size >= minCapacity
    /\ last.size <= maxCapacity
    /\ last.pre.buffer_ # nullptr
    /\ ~operatorBool

\* The bytes the storage holds between the two cursors, in cursor order.
Stored ==
    [i \in 1..availableBytes |-> Load(buffer_, (readPosition_ + i - 1) % capacity_)]

\* C8: with allowPartial = false, write (read) transfers all itemCount items
\* when itemCount * itemSize bytes are free (queued) and otherwise returns 0
\* and changes neither a cursor nor a stored byte.
C8_AllOrNothing ==
    /\ (last.op \in {"write", "writeValue"} /\ ValidBulk /\ ~last.allowPartial)
       => IF BytesAsked <= FreeBefore
          THEN /\ last.ret = last.itemCount
               /\ writePosition_ = (last.pre.writePosition_ + BytesAsked) % Mod
               /\ readPosition_ = last.pre.readPosition_
               /\ Len(Queue) = UsedBefore + BytesAsked
               /\ Stored = Queue
          ELSE /\ last.ret = 0
               /\ Fields = last.pre
               /\ Queue = last.front
    /\ (last.op \in {"read", "readValue"} /\ ValidBulk /\ ~last.allowPartial)
       => IF BytesAsked <= UsedBefore
          THEN /\ last.ret = last.itemCount
               /\ readPosition_ = (last.pre.readPosition_ + BytesAsked) % Mod
               /\ writePosition_ = last.pre.writePosition_
               /\ buffer_ = last.pre.buffer_
               /\ last.out = SubSeq(last.front, 1, BytesAsked)
               /\ Queue = SubSeq(last.front, BytesAsked + 1, Len(last.front))
          ELSE /\ last.ret = 0
               /\ Fields = last.pre
               /\ Queue = last.front

\* A write without allowPartial was refused although one item would have fit.
C8_Witness ==
    /\ last.op = "write"
    /\ ValidBulk
    /\ ~last.allowPartial
    /\ last.ret = 0
    /\ last.itemSize <= FreeBefore
    /\ BytesAsked > FreeBefore
    /\ UsedBefore > 0

\* C9: with allowPartial = true, write returns
\* min(itemCount, floor(freeBytes / itemSize)) and advances writePosition by
\* that count times itemSize; read returns
\* min(itemCount, floor(usedBytes / itemSize)) and advances readPosition
\* likewise; only whole items are transferred, whatever itemSize and
\* itemCount are.
C9_PartialTransfer ==
    /\ (last.op = "write" /\ ValidBulk /\ last.allowPartial)
       => /\ last.ret = Min(last.itemCount, FreeBefore \div last.itemSize)
          /\ writePosition_ = (last.pre.writePosition_ + BytesDone) % Mod
          /\ readPosition_ = last.pre.readPosition_
          /\ Len(Queue) = UsedBefore + BytesDone
          /\ Stored = Queue
    /\ (last.op = "read" /\ ValidBulk /\ last.allowPartial)
       => /\ last.ret = Min(last.itemCount, UsedBefore \div last.itemSize)
          /\ readPosition_ = (last.pre.readPosition_ + BytesDone) % Mod
          /\ writePosition_ = last.pre.writePosition_
          /\ buffer_ = last.pre.buffer_
          /\ last.out = SubSeq(last.front, 1, BytesDone)
          /\ Queue = SubSeq(last.front, BytesDone + 1, Len(last.front))

\* A partial write took some of the items of a request whose size in bytes
\* does not fit the index type.
C9_Witness ==
    /\ last.op = "write"
    /\ ValidBulk
    /\ last.allowPartial
    /\ BytesAsked >= Mod
    /\ 0 < last.ret
    /\ last.ret < last.itemCount
    /\ FreeBefore % last.itemSize # 0

\* What the last peek asked for, in bytes.
PeekAsked ==
    IF last.op = "peekValues" THEN TotalSize(last.sizes) ELSE BytesAsked

\* C10: peek, peekValue and peekValues leave both cursors, availableBytes()
\* and the stored bytes unchanged whether they succeed or not; they succeed
\* only when every requested item is queued, and then deliver the bytes at
\* the front of the queue.
C10_PeekNeverAdvances ==
    last.op \in {"peek", "peekValue", "peekValues"}
    => /\ Fields = last.pre
       /\ availableBytes = UsedBefore
       /\ Queue = last.front
       /\ last.ok => /\ PeekAsked <= UsedBefore
                     /\ last.out = SubSeq(last.front, 1, PeekAsked)

\* A peek succeeded on items that cross the physical end of the storage.
C10_Witness ==
    /\ last.op = "peek"
    /\ last.ok
    /\ last.itemCount > 1
    /\ ReadIndexBefore + BytesAsked > last.pre.capacity_
    /\ Len(last.out) = BytesAsked

\* s is the beginning of t.
IsPrefix(s, t) ==
    /\ Len(s) <= Len(t)
    /\ \A i \in 1..Len(s) : s[i] = t[i]

\* C1: with one producer thread in write/writeValue and one consumer thread
\* in read/readValue, however their steps interleave, the bytes delivered
\* to the consumer are at all times a prefix of the bytes accepted from the
\* producer, and the two sequences are equal whenever the buffer is empty
\* and neither thread is inside a call.
C1_FifoIntegrity ==
    /\ IsPrefix(delivered, accepted)
    /\ (isEmpty /\ prod.pc = "idle" /\ cons.pc = "idle") => delivered = accepted

\* The two threads are inside their memcpys at the same time, the write
\* location having wrapped the index type while the read location has not,
\* and the consumer has already been given bytes.
C1_Witness ==
    /\ prod.pc = "copy"
    /\ prod.k > 0
    /\ cons.pc = "copy"
    /\ cons.k > 0
    /\ writePosition_ < readPosition_
    /\ delivered # <<>>
    /\ Len(delivered) < Len(accepted)

\* The last call followed the call before it directly, with the same item
\* size and count.
SameItems ==
    /\ last.itemSize = last.before.itemSize
    /\ last.itemCount = last.before.itemCount

\* C11: a read that follows a successful peek of the same itemSize and
\* itemCount returns itemCount and yields the bytes the peek yielded, at
\* every cursor offset.
C11_PeekThenRead ==
    (last.op = "read" /\ last.before.op = "peek" /\ last.before.ok /\ SameItems)
    => /\ last.ret = last.itemCount
       /\ last.out = last.before.out
       /\ Len(last.out) = BytesAsked

\* A read after a peek of several items that cross the physical end of the
\* storage.
C11_Witness ==
    /\ last.op = "read"
    /\ last.before.op = "peek"
    /\ last.before.ok
    /\ SameItems
    /\ last.itemCount > 1
    /\ ReadIndexBefore + BytesAsked > last.pre.capacity_
    /\ last.ret = last.itemCount

\* The last size bytes the producer handed over.
LastWritten(size) ==
    [i \in 1..size |-> Len(accepted) - size + i - 1]

\* The call c was writeValue of a value that fits the
\* capacity, on an empty buffer.
ValueIntoEmpty(c) ==
    /\ c.op = "writeValue"
    /\ c.pre.capacity_ # 0
    /\ c.front = <<>>
    /\ c.itemSize <= c.pre.capacity_

\* C12: on an empty allocated buffer whose capacity is at least sizeof(T),
\* writeValue(v) returns true, and the readValue that follows yields v and
\* leaves the buffer empty, at every cursor offset.
C12_ValueRoundTrip ==
    /\ ValueIntoEmpty(last) => last.ok
    /\ (last.op = "readValue" /\ ValueIntoEmpty(last.before)
        /\ last.itemSize = last.before.itemSize)
       => /\ last.ok
          /\ last.out = LastWritten(last.itemSize)
          /\ isEmpty
          /\ availableBytes = 0

\* A value of several bytes that crosses the physical end of the storage
\* made the round trip.
C12_Witness ==
    /\ last.op = "readValue"
    /\ ValueIntoEmpty(last.before)
    /\ last.itemSize = last.before.itemSize
    /\ ReadIndexBefore + last.itemSize > last.pre.capacity_
    /\ ReadIndexBefore > 0
    /\ last.ok

\* The vector vec covers the region of total bytes that starts at the cursor
\* pos: nothing when the region is empty; otherwise front starts at the
\* physical offset of pos, and either the region ends within the storage
\* and back is empty, or front ends at the end of the storage and back
\* starts at offset 0.
Covers(vec, pos, total) ==
    /\ vec[1].size + vec[2].size = total
    /\ IF total = 0
       THEN vec = <<EmptySpan, EmptySpan>>
       ELSE /\ ~vec[1].null
            /\ vec[1].offset = pos % capacity_
            /\ vec[1].size > 0
            /\ IF (pos % capacity_) + total <= capacity_
               THEN vec[2] = EmptySpan
               ELSE /\ vec[1].offset + vec[1].size = capacity_
                    /\ ~vec[2].null
                    /\ vec[2].offset = 0

\* C13: writeVector() returns spans whose lengths sum to freeSpace() and
\* that cover the free region from the physical offset of writePosition,
\* split at the end of the storage when the region passes it; readVector()
\* does the same for the used region and availableBytes(); when nothing is
\* free (used) both spans are empty.
C13_VectorsCoverRegions ==
    /\ Covers(writeVector, writePosition_, freeSpace)
    /\ Covers(readVector, readPosition_, availableBytes)

\* The free region passes the end of the storage while bytes are queued,
\* the write location having gone round the storage.
C13_Witness ==
    /\ writeVector[2].size > 0
    /\ readVector[1].size > 0
    /\ writePosition_ > capacity_
    /\ writeVector[1].offset > readVector[1].offset

\* C14: for every k <= freeSpace(), copying k bytes into the spans of
\* writeVector(), front first, and calling commitWrite(k) increases
\* availableBytes() by exactly k, and the consumer then reads the bytes
\* that were queued before followed by exactly those k bytes, in order.
C14_CommitWritePublishes ==
    /\ last.op = "commitWrite"
       => /\ last.count <= FreeBefore
          /\ availableBytes = UsedBefore + last.count
          /\ readPosition_ = last.pre.readPosition_
          /\ Queue = last.front \o LastWritten(last.count)
    /\ (last.op = "read" /\ last.before.op = "commitWrite")
       => /\ last.ret = Len(last.before.front) + last.before.count
          /\ last.out = last.before.front \o LastWritten(last.before.count)
          /\ isEmpty

\* The consumer read bytes queued earlier and then several committed bytes
\* that had been copied into both spans of the write vector.
C14_Witness ==
    /\ last.op = "read"
    /\ last.before.op = "commitWrite"
    /\ last.before.front # <<>>
    /\ last.before.count > 1
    /\ (last.before.pre.writePosition_ % capacity_) + last.before.count > capacity_
    /\ last.ret = Len(last.before.front) + last.before.count

\* C15: writeValues returns false, stores nothing and moves no cursor when
\* the sum of the argument sizes exceeds the free space, and otherwise
\* writes every argument and advances writePosition by exactly that sum;
\* readValues and peekValues are all-or-nothing in the same way with
\* respect to the available bytes.
C15_ValuesAllOrNothing ==
    /\ last.op = "writeValues"
       => IF TotalSize(last.sizes) > FreeBefore
          THEN /\ ~last.ok
               /\ Fields = last.pre
               /\ Queue = last.front
          ELSE /\ last.ok
               /\ writePosition_ = (last.pre.writePosition_ + TotalSize(last.sizes)) % Mod
               /\ readPosition_ = last.pre.readPosition_
               /\ Queue = last.front \o LastWritten(TotalSize(last.sizes))
               /\ Stored = Queue
    /\ last.op = "readValues"
       => IF TotalSize(last.sizes) > UsedBefore
          THEN /\ ~last.ok
               /\ Fields = last.pre
               /\ Queue = last.front
          ELSE /\ last.ok
               /\ readPosition_ = (last.pre.readPosition_ + TotalSize(last.sizes)) % Mod
               /\ writePosition_ = last.pre.writePosition_
               /\ buffer_ = last.pre.buffer_
               /\ last.out = SubSeq(last.front, 1, TotalSize(last.sizes))
               /\ Queue = SubSeq(last.front, TotalSize(last.sizes) + 1, Len(last.front))
    /\ last.op = "peekValues"
       => /\ Fields = last.pre
          /\ Queue = last.front
          /\ IF TotalSize(last.sizes) > UsedBefore
             THEN ~last.ok
             ELSE last.ok /\ last.out = SubSeq(last.front, 1, TotalSize(last.sizes))

\* writeValues was refused although its first argument alone would have
\* fit in the free space.
C15_Witness ==
    /\ last.op = "writeValues"
    /\ ~last.ok
    /\ Len(last.sizes) > 1
    /\ FreeBefore >= last.sizes[1]
    /\ FreeBefore > 0
    /\ UsedBefore > 0
    /\ Fields = last.pre

\* Argument j of the values whose concatenated bytes are bytes.
ArgBytes(bytes, sizes, j) ==
    SubSeq(bytes, SumTo(sizes, j - 1) + 1, SumTo(sizes, j))

\* readValues followed writeValues of the same argument sizes, which fit
\* into an empty buffer.
ValuesRoundTrip ==
    /\ last.op = "readValues"
    /\ last.before.op = "writeValues"
    /\ last.before.ok
    /\ last.before.front = <<>>
    /\ last.sizes = last.before.sizes

\* C16: writeValues(a1..ak) that fits, followed by readValues(x1..xk) of the
\* same types, yields xi = ai for every i and consumes exactly the sum of
\* the sizes, at every cursor offset.
C16_ValuesRoundTrip ==
    ValuesRoundTrip
    => /\ last.ok
       /\ Len(last.out) = TotalSize(last.sizes)
       /\ \A j \in 1..Len(last.sizes) :
              ArgBytes(last.out, last.sizes, j)
                  = ArgBytes(LastWritten(TotalSize(last.sizes)), last.sizes, j)
       /\ readPosition_ = (last.pre.readPosition_ + TotalSize(last.sizes)) % Mod
       /\ isEmpty

\* The round trip of arguments one of which has bytes on both sides of the
\* physical end of the storage.
C16_Witness ==
    /\ ValuesRoundTrip
    /\ last.ok
    /\ \E j \in 1..Len(last.sizes) :
           /\ ReadIndexBefore + SumTo(last.sizes, j - 1) < last.pre.capacity_
           /\ ReadIndexBefore + SumTo(last.sizes, j) > last.pre.capacity_
    /\ Len(last.sizes) > 1

\* The call c is a skip that passes the argument check.
ValidSkip(c) ==
    /\ c.op = "skip"
    /\ c.itemSize > 0
    /\ c.itemCount > 0
    /\ c.pre.capacity_ # 0

\* C17: skip(itemSize, itemCount) returns
\* min(itemCount, floor(availableBytes / itemSize)), advances readPosition
\* by that count times itemSize, copies nothing and leaves writePosition
\* unchanged; the next read returns the bytes that followed the skipped
\* ones.
C17_SkipAdvancesRead ==
    /\ ValidSkip(last)
       => /\ last.ret = Min(last.itemCount, UsedBefore \div last.itemSize)
          /\ readPosition_ = (last.pre.readPosition_ + BytesDone) % Mod
          /\ writePosition_ = last.pre.writePosition_
          /\ buffer_ = last.pre.buffer_
          /\ last.out = <<>>
          /\ Queue = SubSeq(last.front, BytesDone + 1, Len(last.front))
    /\ (last.op = "read" /\ ValidSkip(last.before))
       => LET skipped == last.before.ret * last.before.itemSize
              left == Len(last.before.front) - skipped
          IN  /\ last.ret = Min(last.itemCount, left \div last.itemSize)
              /\ last.out = SubSeq(last.before.front, skipped + 1, skipped + BytesDone)

\* A read got the bytes behind those a skip of fewer items than asked for
\* had passed over.
C17_Witness ==
    /\ last.op = "read"
    /\ ValidSkip(last.before)
    /\ last.before.ret > 0
    /\ last.before.ret < last.before.itemCount
    /\ last.before.itemSize > 1
    /\ last.ret > 0

\* C18: skip with allowPartial = false, and skip<T>(n), which is
\* skip(sizeof T, n, false), discard nothing and leave readPosition
\* unchanged when fewer than the requested number of whole items is
\* available, and skip exactly the requested number otherwise.
C18_SkipAllOrNothing ==
    (/\ last.op \in {"skip/3", "skip<T>"}
     /\ ~last.allowPartial
     /\ last.itemSize > 0)
    => IF UsedBefore \div last.itemSize < last.itemCount
       THEN /\ last.ret = 0
            /\ Fields = last.pre
            /\ Queue = last.front
            /\ ~last.ok
       ELSE /\ last.ret = last.itemCount
            /\ readPosition_ = (last.pre.readPosition_ + BytesAsked) % Mod
            /\ writePosition_ = last.pre.writePosition_
            /\ buffer_ = last.pre.buffer_
            /\ Queue = SubSeq(last.front, BytesAsked + 1, Len(last.front))
            /\ last.op = "skip<T>" => last.ok

\* skip<T>(n) refused to skip the whole items that were there, n being more.
C18_Witness ==
    /\ last.op = "skip<T>"
    /\ ~last.ok
    /\ UsedBefore \div last.itemSize > 0
    /\ UsedBefore \div last.itemSize < last.itemCount
    /\ readPosition_ = last.pre.readPosition_

\* C19: drain() returns the number of bytes that were available and leaves
\* the buffer empty without changing writePosition; on an empty or
\* unallocated buffer it returns 0 and changes nothing, so a second drain()
\* in a row returns 0.
C19_DrainEmpties ==
    /\ last.op = "drain"
       => /\ last.ret = UsedBefore
          /\ isEmpty
          /\ freeSpace = capacity
          /\ availableBytes = 0
          /\ writePosition_ = last.pre.writePosition_
          /\ buffer_ = last.pre.buffer_
          /\ Queue = <<>>
          /\ (UsedBefore = 0 \/ last.pre.capacity_ = 0)
             => last.ret = 0 /\ Fields = last.pre
    /\ (last.op = "drain" /\ last.before.op = "drain")
       => last.ret = 0 /\ Fields = last.pre

\* A second drain in a row, after one that discarded a full buffer.
C19_Witness ==
    /\ last.op = "drain"
    /\ last.before.op = "drain"
    /\ last.before.ret = capacity_
    /\ capacity_ > 0
    /\ last.ret = 0
    /\ readPosition_ > capacity_

\* The last call was given a null pointer, a zero item size or count, or an
\* unallocated buffer.
NothingToDo ==
    \/ last.ptrNull
    \/ last.itemSize = 0
    \/ last.itemCount = 0
    \/ last.pre.buffer_ = nullptr

\* C20: write and read return 0 and peek returns false, with both cursors
\* and the stored bytes unchanged, whenever ptr is null, itemSize is 0,
\* itemCount is 0 or the buffer is unallocated; a buffer without storage
\* reports capacity() = 0, availableBytes() = 0 and freeSpace() = 0.
C20_NoOps ==
    /\ (last.op \in {"write", "read", "peek"} /\ NothingToDo)
       => /\ last.ret = 0
          /\ ~last.ok
          /\ last.out = <<>>
          /\ Fields = last.pre
          /\ Queue = last.front
    /\ ~operatorBool
       => /\ capacity = 0
          /\ availableBytes = 0
          /\ freeSpace = 0

\* A read through a null pointer returned 0 although bytes were queued.
C20_Witness ==
    /\ last.op = "read"
    /\ last.ptrNull
    /\ UsedBefore > 0
    /\ last.ret = 0
    /\ availableBytes = UsedBefore

\* C21: when the default constructor of T throws inside readValue<T>() or
\* peekValue<T>(), the exception reaches the caller and both cursors,
\* availableBytes() and the stored bytes are unchanged; a readValue<T>()
\* made afterwards without the throw returns the value that was stored.
C21_ThrowLeavesStateAlone ==
    /\ (last.op \in {"readValue<T>()", "peekValue<T>()"} /\ last.throws)
       => /\ last.thrown
          /\ Fields = last.pre
          /\ availableBytes = UsedBefore
          /\ Queue = last.front
    /\ (/\ last.op = "readValue<T>()"
        /\ ~last.throws
        /\ last.before.op \in {"readValue<T>()", "peekValue<T>()"}
        /\ last.before.thrown
        /\ Len(last.before.front) >= last.itemSize)
       => /\ ~last.thrown
          /\ last.ok
          /\ last.out = SubSeq(last.before.front, 1, last.itemSize)

\* readValue<T>() threw with a value queued across the physical end of the
\* storage, and the readValue<T>() after it returned that value.
C21_Witness ==
    /\ last.op = "readValue<T>()"
    /\ last.ok
    /\ last.before.op = "readValue<T>()"
    /\ last.before.thrown
    /\ last.itemSize > 1
    /\ ReadIndexBefore + last.itemSize > last.pre.capacity_

\* The bytes an object with the fields f holds between its two cursors, in
\* cursor order.
StoredIn(f) ==
    [i \in 1..Sub(f.writePosition_, f.readPosition_) |->
        Load(f.buffer_, (f.readPosition_ + i - 1) % f.capacity_)]

\* C22: after a move construction or a move assignment the destination has
\* the source's former capacity, cursors and unread bytes, readable in the
\* same order, and the source is unallocated: operator bool false, capacity
\* 0, both cursors 0, every data operation a no-op.
C22_MoveTransfersState ==
    /\ last.op \in {"moveConstruct.source", "moveAssign.source"}
       => /\ last.peer = last.pre
          /\ StoredIn(last.peer) = last.front
          /\ Fields = NoFields
          /\ ~operatorBool
          /\ capacity = 0
    /\ last.before.op \in {"moveConstruct.source", "moveAssign.source"}
       => /\ last.ret = 0
          /\ ~last.ok
          /\ Fields = NoFields
    /\ last.op = "moveConstruct.destination"
       => /\ Fields = last.pre
          /\ Queue = last.front
          /\ last.peer = NoFields
    /\ (last.op = "read" /\ last.before.op = "moveConstruct.destination")
       => /\ last.out = last.before.front
          /\ last.ret = Len(last.before.front)

\* The new object of a move construction was read: bytes that lie across
\* the physical end of the storage, the cursors being what they were.
C22_Witness ==
    /\ last.op = "read"
    /\ last.before.op = "moveConstruct.destination"
    /\ last.ret > 1
    /\ ReadIndexBefore + last.ret > last.pre.capacity_
    /\ last.pre.readPosition_ > last.pre.capacity_

\* C23: deallocate() leaves the buffer unallocated (operator bool false,
\* capacity, capacityMask and both cursors 0); on an unallocated buffer, and
\* so the second time in a row, it changes nothing.
C23_DeallocateIdempotent ==
    /\ last.op = "Deallocate"
       => /\ ~operatorBool
          /\ capacity_ = 0
          /\ capacityMask_ = 0
          /\ writePosition_ = 0
          /\ readPosition_ = 0
          /\ Queue = <<>>
          /\ last.pre.buffer_ = nullptr => Fields = last.pre
    /\ (last.op = "Deallocate" /\ last.before.op = "Deallocate")
       => Fields = last.pre

\* Deallocate twice in a row, the first on a buffer whose two cursors had
\* moved and that held bytes.
C23_Witness ==
    /\ last.op = "Deallocate"
    /\ last.before.op = "Deallocate"
    /\ last.before.front # <<>>
    /\ last.before.pre.readPosition_ > 0
    /\ Fields = last.pre

\* The step by which the accessor op returns to the consumer, to the
\* producer.
ConsumerSees(op) == cons.pc = op /\ cons'.pc = "idle"

ProducerSees(op) == prod.pc = op /\ prod'.pc = "idle"

\* C24 as stated: a value the consumer gets from freeSpace()/isFull(), or
\* the producer from availableBytes()/isEmpty(), while the other thread is
\* at work, is never larger than the true free space (available bytes) at
\* the time the call returns.
C24_CrossSideNeverLarger ==
    [][/\ ConsumerSees("freeSpace") => cons'.seen[2] <= freeSpace'
       /\ ConsumerSees("isFull") => (isFull' => cons'.seen[2])
       /\ ProducerSees("availableBytes") => prod'.seen[2] <= availableBytes'
       /\ ProducerSees("isEmpty") => (isEmpty' => prod'.seen[2])]_vars

\* C24, amended: such a value is never smaller than the true free space
\* (available bytes) at the time the call returns; it may only be larger,
\* the other thread having used up free space (taken bytes) since the
\* accessor loaded that thread's cursor.  isFull() (isEmpty()) seen from the
\* other side is true only when the buffer is full (empty).
C24_CrossSideNeverSmaller ==
    [][/\ ConsumerSees("freeSpace") => cons'.seen[2] >= freeSpace'
       /\ ConsumerSees("isFull") => (cons'.seen[2] => isFull')
       /\ ProducerSees("availableBytes") => prod'.seen[2] >= availableBytes'
       /\ ProducerSees("isEmpty") => (prod'.seen[2] => isEmpty')]_vars

\* The consumer has a freeSpace() result larger than the free space: the
\* producer published bytes after the accessor had loaded writePosition.
C24_Witness ==
    /\ cons.seen # <<>>
    /\ cons.seen[1] = "freeSpace"
    /\ cons.seen[2] > freeSpace
    /\ prod.pc = "idle"
    /\ Len(accepted) > capacity_

\* The test has transferred all its values: both loops are left, the
\* consumer got every byte written, in the order written.
AllTransferred ==
    /\ prod.pc = "idle"
    /\ cons.pc = "idle"
    /\ Len(accepted) = (MaxBytes \div last.size) * last.size
    /\ delivered = accepted

\* C25: under weak fairness of both threads, a producer that retries
\* writeValue until each of its values is accepted and a consumer that
\* retries readValue until it has every value both terminate, the consumer
\* has exactly the values written, in order, and isEmpty() holds at the end.
C25_RetryTerminates ==
    <>[](AllTransferred /\ last.op = "isEmpty" /\ last.ok)

\* The test ended with more bytes transferred than the buffer holds and
\* than the cursors count before they wrap, so the producer had to wait for
\* the consumer.
C25_Witness ==
    /\ AllTransferred
    /\ last.op = "isEmpty"
    /\ last.ok
    /\ last.size > 1
    /\ Len(delivered) > capacity_
    /\ Len(delivered) > Mod

Sees(thread, op) == thread.seen # <<>> /\ thread.seen[1] = op

\* C27: in every state of an allocated buffer used by a producer and a
\* consumer thread, between the steps of their calls too, writePosition -
\* readPosition modulo the index type lies in 0..capacity, and so does every
\* distance write and read work with and every value availableBytes() or
\* freeSpace() returned to either thread.
C27_DistanceInRange ==
    /\ Sub(writePosition_, readPosition_) \in 0..capacity_
    /\ prod.pc = "copy" => Sub(prod.writePos, prod.readPos) \in 0..capacity_
    /\ cons.pc = "copy" => Sub(cons.writePos, cons.readPos) \in 0..capacity_
    /\ \A thread \in {prod, cons}, op \in {"availableBytes", "freeSpace"} :
           Sees(thread, op) => thread.seen[2] \in 0..capacity_

\* The write cursor has wrapped and the read cursor has not, the producer
\* is copying, and the consumer has a freeSpace() value from a
\* writePosition the producer has moved since.
C27_Witness ==
    /\ writePosition_ < readPosition_
    /\ prod.pc = "copy"
    /\ prod.k > 0
    /\ Sees(cons, "freeSpace")
    /\ cons.seen[2] # freeSpace
    /\ Sub(writePosition_, readPosition_) > 0

\* C28: at every point of every interleaving of a producer and a consumer
\* thread, a byte at a time, the physical offsets the producer may store to
\* (the region write was granted, the vector writeVector returned) and
\* those the consumer may load from (the region of read or peek, the vector
\* readVector returned) are disjoint.
C28_RegionsDisjoint ==
    ProducerRange \cap ConsumerRange = {}

\* The producer holds a write vector of two spans, going round the end of
\* the storage, and the consumer a read vector; both are at work, and
\* between them the vectors cover the storage.
C28_Witness ==
    /\ prod.pc = "vector"
    /\ cons.pc = "vector"
    /\ ~prod.vec[2].null
    /\ prod.k > 0
    /\ cons.k > 0
    /\ ProducerRange \cup ConsumerRange = 0..(capacity_ - 1)

\* The byte at position readPosition + j has been stored: the storage holds
\* the byte of the stream that belongs there, and the producer is not
\* storing to that place.
StoredAt(j) ==
    LET off == BitAnd(Add(readPosition_, j), capacityMask_)
    IN  /\ Load(buffer_, off) = Len(delivered) + j
        /\ off \notin ProducerRange

\* Whatever writePosition holds, and whatever value of it the consumer has
\* loaded in the call it is in, every byte from readPosition up to it has
\* been stored.
Published ==
    /\ \A j \in 0..(Sub(writePosition_, readPosition_) - 1) : StoredAt(j)
    /\ cons.pc # "idle" =>
           \A j \in 0..(Sub(cons.writePos, readPosition_) - 1) : StoredAt(j)

\* A step of write or writeValues that stores writePosition comes after the
\* copy of every byte of the transfer and advances it by their number; a
\* step of read or readValues that stores readPosition comes after every
\* byte has been copied out.
StoresAfterCopy ==
    /\ (writePosition_' # writePosition_ /\ prod.pc \in {"copy", "values"}) =>
           /\ prod.k = prod.bytes
           /\ writePosition_' = Add(writePosition_, prod.bytes)
           /\ \A j \in 0..(prod.bytes - 1) :
                  Load(buffer_, BitAnd(Add(writePosition_, j), capacityMask_))
                      = Load(prod.data, j)
    /\ (readPosition_' # readPosition_ /\ cons.pc \in {"copy", "values"}) =>
           /\ cons.k = cons.bytes
           /\ Len(cons.data) = cons.bytes
           /\ readPosition_' = Add(readPosition_, cons.bytes)
    /\ writePosition_' # writePosition_ => prod.pc \in {"copy", "values", "vector"}
    /\ readPosition_' # readPosition_ => cons.pc \in {"copy", "values", "vector"}

\* C29: write and writeValues store the new writePosition only after every
\* byte of the transfer has been copied into the buffer, read and
\* readValues store the new readPosition only after every byte has been
\* copied out; so whenever the consumer observes writePosition = W, every
\* byte at a position in [readPosition, W) has been stored by the producer.
C29_PublicationOrder ==
    []Published /\ [][StoresAfterCopy]_vars

\* The consumer is copying out of a region it saw published, across the
\* end of the storage, while the producer, which has published more since,
\* has copied bytes of its next transfer and not yet published them.
C29_Witness ==
    /\ cons.pc \in {"copy", "values"}
    /\ cons.k > 0
    /\ BitAnd(cons.readPos, capacityMask_) + cons.bytes > capacity_
    /\ cons.writePos # writePosition_
    /\ prod.pc \in {"copy", "values"}
    /\ prod.k > 0

\* The cursors count the bytes written and read modulo 2^IndexBits: their
\* difference is the number of unread bytes, the physical offset of each is
\* the count of bytes modulo the capacity, so it goes on from capacity - 1
\* to 0 and nowhere else when the cursor wraps, and the storage holds the
\* unread bytes in the order written.
WrapHarmless ==
    /\ capacity_ <= maxCapacity
    /\ writePosition_ = Len(accepted) % Mod
    /\ readPosition_ = consumed % Mod
    /\ Sub(writePosition_, readPosition_) = Len(accepted) - consumed
    /\ BitAnd(writePosition_, capacityMask_) = Len(accepted) % capacity_
    /\ BitAnd(readPosition_, capacityMask_) = consumed % capacity_
    /\ \A j \in 0..(Len(accepted) - consumed - 1) :
           Load(buffer_, BitAnd(Add(readPosition_, j), capacityMask_))
               = accepted[consumed + j + 1]

\* C30: index wrap-around is harmless: when writePosition or readPosition
\* overflows 2^W and wraps to a small value, writePosition - readPosition
\* (mod 2^W) still is the number of unread bytes, the physical offset
\* position & (capacity - 1) continues without a jump, and FIFO order is
\* preserved (a read gives the oldest unread bytes), for every capacity up
\* to maxCapacity = 2^(W-1).
C30_WrapHarmless ==
    /\ capacity_ # 0 => WrapHarmless
    /\ (last.op \in {"read", "readValue", "readValues"} /\ last.ok) =>
           /\ Len(last.out) > 0
           /\ IsPrefix(last.out, last.front)

\* A read on a buffer of the largest capacity took bytes from both sides of
\* the place where readPosition wrapped, writePosition having wrapped
\* before it, and left bytes queued.
C30_Witness ==
    /\ capacity_ = maxCapacity
    /\ last.op = "read"
    /\ last.ret > 1
    /\ last.pre.writePosition_ < last.pre.readPosition_
    /\ readPosition_ < last.pre.readPosition_
    /\ readPosition_ > 0
    /\ availableBytes > 0
    /\ Len(accepted) > Mod

\* The calls that store writePosition, those that store readPosition, and
\* those that set both cursors anew.
WriteFamily == {"write", "writeValue", "writeValues", "commitWrite"}

ReadFamily ==
    {"read", "readValue", "readValue<T>()", "readValues", "skip", "skip/3",
     "skip<T>", "drain", "commitRead"}

Resetters ==
    {"Allocate", "Deallocate", "moveConstruct.source", "moveConstruct.destination",
     "moveAssign.source", "moveAssign.self"}

\* C31: neither cursor ever moves backward: a call of write, writeValue(s)
\* or commitWrite moves writePosition forward by a modular distance of at
\* most the free space, a call of read, readValue(s), skip, drain or
\* commitRead moves readPosition forward by at most the used bytes, and no
\* other call but allocate, deallocate and the moves changes a cursor.
C31_CursorsForward ==
    [][/\ last'.op \in WriteFamily =>
              /\ Sub(writePosition_', writePosition_) <= freeSpace
              /\ readPosition_' = readPosition_
       /\ last'.op \in ReadFamily =>
              /\ Sub(readPosition_', readPosition_) <= availableBytes
              /\ writePosition_' = writePosition_
       /\ last'.op \notin WriteFamily \cup ReadFamily \cup Resetters =>
              /\ writePosition_' = writePosition_
              /\ readPosition_' = readPosition_]_vars

\* drain moved readPosition forward past the place where it wraps, by more
\* than one byte, on a buffer whose writePosition had wrapped before.
C31_Witness ==
    /\ last.op = "drain"
    /\ last.pre.capacity_ # 0
    /\ readPosition_ < last.pre.readPosition_
    /\ Sub(readPosition_, last.pre.readPosition_) > 1
    /\ last.pre.writePosition_ < last.pre.readPosition_

\* The calls of the consumer that store no cursor.
PeekFamily == {"peek", "peekValue", "peekValue<T>()", "peekValues", "readVector"}

\* C32: each side mutates only its half: no call of the write family
\* (write, writeValue(s), writeVector, commitWrite) changes readPosition, no
\* call of the read family (read, peek, readValue(s), peekValue(s),
\* readVector, commitRead, skip, drain) changes writePosition or a stored
\* byte, and none of them changes the capacity or the backing region.
C32_EachSideItsHalf ==
    [][/\ last'.op \in WriteFamily \cup {"writeVector"} =>
              readPosition_' = readPosition_
       /\ last'.op \in ReadFamily \cup PeekFamily =>
              /\ writePosition_' = writePosition_
              /\ buffer_' = buffer_
       /\ last'.op \in WriteFamily \cup {"writeVector"} \cup ReadFamily \cup PeekFamily =>
              /\ capacity_' = capacity_
              /\ capacityMask_' = capacityMask_
              /\ Len(buffer_') = Len(buffer_)]_vars

\* A write that took bytes changed stored bytes and writePosition on a
\* buffer with bytes queued, and left readPosition where a read had put it.
C32_Witness ==
    /\ last.op = "write"
    /\ last.ret > 0
    /\ buffer_ # last.pre.buffer_
    /\ writePosition_ # last.pre.writePosition_
    /\ readPosition_ = last.pre.readPosition_
    /\ readPosition_ # 0
    /\ last.front # <<>>

\* The live objects whose buffer_ points to region p.
Owners(p) == {o \in Objects : objects[o].live /\ objects[o].fields.buffer_ = <<p>>}

\* C33: exclusive ownership of the backing region: after any sequence of
\* allocate, deallocate, move construction, move assignment (onto itself
\* and onto an allocated destination too) and destruction, every region
\* the allocator handed out has exactly one live buffer pointing to it until
\* it is released, no region is released twice, and no live buffer points
\* to a region that is not allocated.
C33_ExclusiveOwnership ==
    \A p \in Regions :
        /\ heap[p] # "corrupt"
        /\ heap[p] = "allocated" => Cardinality(Owners(p)) = 1
        /\ heap[p] # "allocated" => Owners(p) = {}

\* Every object is alive and has storage, one of them of a capacity the
\* other had been given, and a region has been released.
C33_Witness ==
    /\ \A o \in Objects : objects[o].live /\ objects[o].fields.buffer_ # nullptr
    /\ \E p \in Regions : heap[p] = "released"
    /\ objects[1].fields.capacity_ # objects[2].fields.capacity_

\* C34: in the masked-index implementation the lengths of the two buffers
\* GetWriteVector() returns sum to the room to write and those of
\* GetReadVector() to the bytes to read; the first buffer starts at the
\* cursor; the second, when it is not empty, starts at offset 0 and lies
\* inside the storage.
C34_VectorCoversSpace ==
    /\ last.op = "GetReadVector" =>
           LET v == SFB_ReadBufferPair(writePosition_, readPosition_)
           IN  /\ last.ret = SFB_BytesAvailableToRead
               /\ v[1].offset = readPosition_
               /\ v[2].size > 0 => (v[2].offset = 0 /\ v[2].size <= capacity_)
    /\ last.op = "GetWriteVector" =>
           LET v == SFB_WriteBufferPair(writePosition_, readPosition_)
           IN  /\ last.ret = SFB_BytesAvailableToWrite
               /\ v[1].offset = writePosition_
               /\ v[2].size > 0 => (v[2].offset = 0 /\ v[2].size <= capacity_)
\* C35: in SFB::RingBuffer, WriteValues(a1..ak) on an empty buffer followed
\* by ReadValues(x1..xk) with the same types returns the values written, in
\* order, wherever the read and write offsets are, also when the bytes of
\* one argument are split between the two buffers of the vector.
C35_SFBValuesRoundTrip ==
    (/\ last.op = "ReadValues"
     /\ last.before.op = "WriteValues"
     /\ last.before.ok
     /\ last.before.pre.writePosition_ = last.before.pre.readPosition_)
    => /\ last.ok
       /\ last.out = SubSeq(accepted, Len(accepted) - TotalSize(last.sizes) + 1,
                            Len(accepted))

\* C36: the space a side has observed is still there when it acts: after
\* the producer saw freeSpace() >= n, or a writeVector() of n bytes or more,
\* its next write of n bytes with allowPartial = false copies n bytes, and
\* its commitWrite(n) stays within the free space, whatever the consumer
\* did in between; after the consumer saw availableBytes() >= n, or a
\* readVector() of n bytes or more, its next read, peek or readValues of n
\* bytes copies n bytes and its commitRead(n) stays within the bytes queued,
\* whatever the producer did in between.
ObservedSpaceStays ==
    /\ (prod.pc = "loaded" /\ prod'.pc # "loaded") =>
           (prod'.pc = "copy" /\ prod'.bytes = prod.itemSize * prod.itemCount)
    /\ (prod.pc = "vector" /\ prod'.pc = "idle") =>
           prod.k <= Sub(capacity_, Sub(writePosition_, readPosition_))
    /\ (cons.pc = "loaded" /\ cons'.pc # "loaded") =>
           (cons'.pc = "copy" /\ cons'.bytes = cons.itemSize * cons.itemCount)
    /\ (cons.pc = "peekLoaded" /\ cons'.pc # "peekLoaded") =>
           (cons'.pc = "peekCopy" /\ cons'.bytes = cons.itemSize * cons.itemCount)
    /\ (cons.pc = "readValues" /\ cons'.pc # "readValues") =>
           (cons'.pc = "values" /\ cons'.bytes = TotalSize(cons.sizes))
    /\ (cons.pc = "vector" /\ cons'.pc = "idle") =>
           cons.k <= Sub(writePosition_, readPosition_)

C36_ObservedSpaceStays == [][ObservedSpaceStays]_vars

\* Both threads are copying what they had seen: the producer all the room
\* it saw, in a write that found more room than that, the consumer all
\* the bytes it saw.
C36_Witness ==
    /\ prod.pc = "copy"
    /\ prod.seen # <<>>
    /\ prod.bytes = prod.seen[2]
    /\ prod.bytes < Sub(capacity_, Sub(prod.writePos, prod.readPos))
    /\ cons.pc \in {"copy", "values"}
    /\ cons.seen # <<>>
    /\ cons.bytes = cons.seen[2]

\* C37: the assertions of commitWrite and commitRead hold on the calls the
\* library makes itself: from the moment writeValues has found its
\* arguments to fit until it calls commitWrite(totalSize), totalSize is at
\* most freeSpace(), and from the moment readValues (either overload: both
\* are peekValues followed by commitRead) has found its arguments to be
\* there until it calls commitRead(totalSize), totalSize is at most
\* availableBytes(), wherever the other thread is.
C37_AssertionsHold ==
    /\ prod.pc = "values" =>
           TotalSize(prod.sizes) <= Observed("freeSpace", writePosition_, readPosition_)
    /\ cons.pc = "values" =>
           TotalSize(cons.sizes) <= Observed("availableBytes", writePosition_,
                                             readPosition_)

\* writeValues is about to call commitWrite(totalSize) while the consumer,
\* which has moved its cursor since writeValues loaded it, is inside a call.
C37_Witness ==
    /\ prod.pc = "values"
    /\ prod.k = prod.bytes
    /\ prod.readPos # readPosition_
    /\ cons.pc # "idle"
\* C38: bytes are conserved: whenever neither thread is inside a call, the
\* number of bytes the producer's write, writeValues and commitWrite calls
\* accepted equals the bytes the reads returned plus the bytes skip and
\* drain reported plus availableBytes(); a drain that races with a write
\* discards no byte it does not count.
C38_BytesConserved ==
    (prod.pc = "idle" /\ cons.pc = "idle") =>
        Len(accepted) = Len(delivered) + consumed
                        + Observed("availableBytes", writePosition_, readPosition_)

\* Both threads are between calls; the last drain returned fewer bytes than
\* were queued by the time of its store, a write having published bytes
\* after drain loaded the write location; reads have returned bytes, and
\* bytes are still queued.
C38_Witness ==
    /\ prod.pc = "idle"
    /\ cons.pc = "idle"
    /\ last.op = "drain"
    /\ last.ret > 0
    /\ last.count > last.ret
    /\ Len(delivered) > 0
    /\ Observed("availableBytes", writePosition_, readPosition_) > 0

\* The fields of an object are consistent.
AllocationConsistent(f) ==
    /\ (f.buffer_ # nullptr) <=> (f.capacity_ # 0)
    /\ f.capacity_ # 0 =>
           /\ \E e \in 0..IndexBits : f.capacity_ = 2 ^ e
           /\ minCapacity <= f.capacity_
           /\ f.capacity_ <= maxCapacity
           /\ f.capacityMask_ = f.capacity_ - 1
           /\ Len(f.buffer_) = f.capacity_
    /\ f.capacity_ = 0 =>
           /\ f.capacityMask_ = 0
           /\ f.writePosition_ = 0
           /\ f.readPosition_ = 0

\* C39: allocation consistency: after any sequence of Allocate (successful,
\* rejected, or failing in the allocator), Deallocate, move construction and
\* move assignment, in the object and in the other object of a move, the
\* backing region is non-null exactly when the capacity is not 0; an
\* allocated object has a capacity that is a power of two in
\* [minCapacity, maxCapacity] and a mask of capacity - 1; an unallocated one
\* has mask and both cursors 0.
C39_AllocationConsistent ==
    /\ AllocationConsistent(Fields)
    /\ AllocationConsistent(last.peer)

\* Allocate failed in the allocator on a buffer that had storage and had
\* been written to: the old storage is gone and the cursors are back at 0.
C39_Witness ==
    /\ last.op = "Allocate"
    /\ ~last.ok
    /\ last.size >= minCapacity
    /\ last.size <= maxCapacity
    /\ last.pre.buffer_ # nullptr
    /\ last.pre.writePosition_ # 0
    /\ buffer_ = nullptr

\* C40: the memory orders of the index protocol: every store to
\* writePosition_ by a producer operation is a release store and every load
\* of it by a consumer operation an acquire load; every store to
\* readPosition_ by a consumer operation is a release store and every load
\* of it by a producer operation an acquire load; each side loads its own
\* cursor relaxed, and stores only its own.
C40_IndexProtocol ==
    /\ prod.seen # <<>> =>
           /\ prod.seen[2] = "store" =>
                  (prod.seen[1] = "writePosition_" /\ prod.seen[3] = "release")
           /\ (prod.seen[2] = "load" /\ prod.seen[1] = "readPosition_") =>
                  prod.seen[3] = "acquire"
           /\ (prod.seen[2] = "load" /\ prod.seen[1] = "writePosition_") =>
                  prod.seen[3] = "relaxed"
    /\ cons.seen # <<>> =>
           /\ cons.seen[2] = "store" =>
                  (cons.seen[1] = "readPosition_" /\ cons.seen[3] = "release")
           /\ (cons.seen[2] = "load" /\ cons.seen[1] = "writePosition_") =>
                  cons.seen[3] = "acquire"
           /\ (cons.seen[2] = "load" /\ cons.seen[1] = "readPosition_") =>
                  cons.seen[3] = "relaxed"

\* write has just made its release store of writePosition_, of a value the
\* consumer, in read after its acquire load of writePosition_, has not seen.
C40_Witness ==
    /\ prod.pc = "write"
    /\ prod.seen = Access("writePosition_", "store", "release")
    /\ cons.pc = "read"
    /\ cons.seen = Access("writePosition_", "load", "acquire")
    /\ cons.writePos # writePosition_

====
